---- MODULE Spec2Model ----
(***************************************************************************)
(* One client connection of the PostgreSQL wire proxy: the protocol state  *)
(* machine (postgres-protocol.js), the query translator (index.js), the    *)
(* Data API client (data-api/client.js) and the socket event wiring        *)
(* (connection-handler.js).                                                *)
(*                                                                         *)
(* Every socket 'data' event starts one invocation of the async handler    *)
(* handleData.  An invocation runs on the event loop until it awaits a     *)
(* socket write callback or a backend reply; while it is suspended other   *)
(* events (data, callbacks, close, error, timeout) are served.  The        *)
(* variable running names the invocation that holds the event loop.        *)
(***************************************************************************)
EXTENDS Integers, Sequences, FiniteSets, TLC

\* ------------------------------------------------------------------ bounds
MaxPre == 2           \* messages the client sends before the connection is ready
MaxMsgs == 3          \* messages the client sends once the connection is ready
MaxChunk == 2         \* messages framed in one data chunk
MaxTasks == 2         \* handler invocations in flight at once
MaxEvents == 1        \* faults of the environment: failed writes, failed backend
                      \* calls, socket errors, timeouts, the peer closing
MaxFrames == 2        \* frames in the byte stream a client sends to the parser
MaxAuthMsgs == 3      \* messages a client sends after the password request
MaxSockets == 2       \* sockets the server accepts
MaxIds == 2           \* values #generateConnectionId may return
MaxStops == 2         \* calls of ProxyServer.stop
MaxTx == 2            \* transactions the backend begins for the server's connections

DataTasks == 1..MaxTasks  \* invocations of handleData
Closer == 0               \* the invocation of handleClose() started by the 'close' event
TaskIds == DataTasks \cup {Closer}
Free == -1                \* value of running when the event loop is free
NoTx == 0                 \* DataAPIClient.transactionId = null
NoSocket == 0             \* Map.get of a connection id that is not a key

\* #generateConnectionId returns Math.random().toString(36).substring(2, 15):
\* any value of a finite set, whatever the ids in use
ConnectionIds == 1..MaxIds
Unset == "undefined"      \* Map.get of a key that was never set

\* ------------------------------------------------------- protocol constants
STATES == {"startup", "authentication", "ready", "terminated"}

\* TRANSACTION_STATUS of utils/constants.js, as the status characters
TRANSACTION_STATUS == [IDLE |-> "I", TRANSACTION |-> "T", FAILED_TRANSACTION |-> "E"]

\* the parameter names of DEFAULT_PARAMETERS, in insertion order
DEFAULT_PARAMETERS ==
  << "server_version", "server_encoding", "client_encoding", "application_name",
     "is_superuser", "session_authorization", "DateStyle", "IntervalStyle",
     "TimeZone", "integer_datetimes", "standard_conforming_strings" >>

\* ------------------------------------------------------------ client input
\* message types produced by MessageParser.parseBuffer
MsgTypes == {"ssl_request", "startup", "password", "query", "parse", "bind",
             "execute", "describe", "close", "sync", "terminate", "unknown"}

\* SQL texts of simple queries the client sends
SqlTexts == {"BEGIN", "COMMIT;", "ROLLBACK", "SELECT 1", "SELECT version()",
             "SET x = 'a'", "SET x = ''", "SHOW x", ""}

\* names of session parameters the client sets and shows
ParamNames == {"x"}

\* the statement name and the text a Parse message of the model carries
StatementNames == {"s1"}
ParseSql == "SELECT 1"

M(type) == [type |-> type, sql |-> ""]
Q(sql) == [type |-> "query", sql |-> sql]

\* Before the connection is ready the handlers only compare the message type
\* with 'startup' and 'password' (and handleData tests isSSL), so one typed
\* frame stands for every other frame a client may send then.
EarlyMessages == {M("ssl_request"), M("startup"), M("password"), Q("SELECT 1")}

\* Once it is ready a client speaks the simple-query protocol or the
\* extended-query protocol on its connection.  handleQuery treats every type
\* it has no case for alike: "unknown" stands for them.
SimpleMessages ==
  {Q(sql) : sql \in SqlTexts} \cup {M("sync"), M("close"), M("terminate")}
ExtendedMessages ==
  {M(ty) : ty \in {"bind", "describe", "execute", "sync", "close",
                   "terminate", "unknown", "ssl_request"}}
    \cup {[type |-> "parse", sql |-> ParseSql]}
Protocols == {SimpleMessages, ExtendedMessages}


VARIABLES
  state,             \* PostgreSQLProtocolHandler.state
  authenticated,     \* PostgreSQLProtocolHandler.authenticated
  startupParameters, \* PostgreSQLProtocolHandler.startupParameters (captured or not)
  inTransaction,     \* QueryTranslator.sessionState.inTransaction
  parameters,        \* QueryTranslator.sessionState.parameters
  preparedStatements, \* QueryTranslator.sessionState.preparedStatements
  transactionId,     \* DataAPIClient.transactionId
  destroyed,         \* socket.destroyed
  ended,             \* socket.end() was called
  closed,            \* the socket 'close' event was delivered
  tasks,             \* the handler invocations in flight
  running,           \* the invocation holding the event loop, or Free
  out,               \* what was written to the socket, in write order
  calls,             \* the calls sent to the backend, in send order
  nextTx,            \* the backend's transaction identifier counter
  log,               \* the messages received, in arrival order
  events,            \* the faults of the environment so far
  writeFailed,       \* some socket write reported an error to its callback
  feed,              \* the bytes the client has still to send
  buffer,            \* PostgreSQLProtocolHandler.buffer
  remaining,         \* parseBuffer: let remaining
  messages,          \* parseBuffer: const messages, as the types parsed
  parsing,           \* control is inside the while loop of parseBuffer
  parsed,            \* the messages parseBuffer has returned, in order
  discarded,         \* the frames whose parse error parseBuffer caught and logged
  server,            \* ProxyServer.server: null, created, listening, closing or closed
  isRunning,         \* ProxyServer.isRunning
  connections,       \* ProxyServer.connections: connection id -> accepted socket
  stats,             \* ProxyServer.stats
  accepted,          \* the ConnectionHandler of every socket accepted, in accept order
  stopping,          \* the promises stop() has returned, in call order
  begun,             \* the backend's transactions: begun[i] is the socket that began i
  executed,          \* the last execute call sent to the backend: << socket, transaction >>
  response,          \* the response of the backend to an execute call
  queryResult,       \* what formatResponse made of it: << >> or << result >>
  reply              \* the messages buildQueryResponse or the error path has built

vars == << state, authenticated, startupParameters, inTransaction, parameters,
           preparedStatements, transactionId, destroyed, ended, closed, tasks, running, out, calls,
           nextTx, log, events, writeFailed,
           feed, buffer, remaining, messages, parsing, parsed, discarded,
           server, isRunning, connections, stats, accepted, stopping, begun, executed,
           response, queryResult, reply >>

connection == << state, authenticated, startupParameters, inTransaction, parameters,
                 preparedStatements, transactionId, destroyed, ended, closed, tasks, running, out, calls,
                 nextTx, log, events, writeFailed >>
parser == << feed, buffer, remaining, messages, parsing, parsed, discarded >>
manager == << server, isRunning, connections, stats, accepted, stopping, begun, executed >>
builder == << response, queryResult, reply >>

proto == << state, authenticated, startupParameters >>
session == << inTransaction, parameters, preparedStatements >>
socket == << destroyed, ended, closed >>
env == << nextTx, events, writeFailed >>

\* ---------------------------------------------------------------- helpers
IdleTask == [pc |-> "idle", msgs |-> << >>, k |-> "", ctx |-> ""]

\* the sequence number of the message an invocation is handling (0: none)
Cur(t) == IF tasks[t].msgs = << >> THEN 0 ELSE Head(tasks[t].msgs).n

Tok(t, a) == [t |-> t, a |-> a]

Tag(n, buf) == [i \in 1..Len(buf) |-> [m |-> n, t |-> buf[i].t, a |-> buf[i].a]]

Quiescent == running = Free /\ \A t \in TaskIds : tasks[t].pc = "idle"

\* what the written sequence o holds in reply to message n, as kinds and arguments
Replies(o, n) ==
  LET r == SelectSeq(o, LAMBDA x : x.m = n)
  IN  [i \in DOMAIN r |-> << r[i].t, r[i].a >>]

\* the environment may still inject a fault
CanFault == events < MaxEvents

\* the outcomes the environment may give a socket write or a backend call:
\* TRUE for success, FALSE for failure
Outcomes == IF CanFault THEN BOOLEAN ELSE {TRUE}

\* --------------------------------------------------------- message builder
\* A reply message is a token [t |-> kind, a |-> argument].

buildReadyForQuery(status) == Tok("ReadyForQuery", status)

\* buildCommandComplete: the tag is commandTag itself whenever commandTag is a
\* string, which it is at every call; rowCount enters the tag only otherwise
buildCommandComplete(commandTag, rowCount) == Tok("CommandComplete", commandTag)

buildRowDescription(columnCount) == Tok("RowDescription", ToString(columnCount))

buildDataRow(value) == Tok("DataRow", value)

buildEmptyQueryResponse == Tok("EmptyQueryResponse", "")

\* the error names the backend reports; the last one stands for every name
\* without a case of its own
ErrorNames ==
  {"BadRequestException", "ForbiddenException", "ServiceUnavailableException",
   "StatementTimeoutException", "ResourceNotFoundException", "ValidationException",
   "ThrottlingException", "InternalServerErrorException"}

\* DataAPIClient.formatError: the class defines the method twice and the later
\* definition, an if-else chain over error.name, is the one that runs
formatError(name) ==
  IF name = "BadRequestException" THEN [code |-> "42601", severity |-> "ERROR"]
  ELSE IF name = "ForbiddenException" THEN [code |-> "42501", severity |-> "ERROR"]
  ELSE IF name = "ServiceUnavailableException" THEN [code |-> "08006", severity |-> "FATAL"]
  ELSE IF name = "StatementTimeoutException" THEN [code |-> "57014", severity |-> "ERROR"]
  ELSE [code |-> "XX000", severity |-> "ERROR"]

\* an error that was not thrown by the backend client has no code and no
\* severity: sendError fills in error.code || 'XX000', error.severity || 'ERROR'
PlainError == [code |-> "XX000", severity |-> "ERROR"]

\* buildErrorResponse: the fields S and C of the message
buildErrorResponse(error) == Tok("ErrorResponse", error.code \o " " \o error.severity)

\* mutant: the first default parameter is left out
buildStartupParameters_SkipFirst ==
  [i \in 1..(Len(DEFAULT_PARAMETERS) - 1) |->
     Tok("ParameterStatus", DEFAULT_PARAMETERS[i + 1])]

buildStartupParameters ==
  [i \in 1..Len(DEFAULT_PARAMETERS) |-> Tok("ParameterStatus", DEFAULT_PARAMETERS[i])]

\* A result is [hasRecords, records, columns, numberOfRecordsUpdated, commandTag];
\* numberOfRecordsUpdated = -1 and commandTag = "" stand for undefined.
inferCommandTag(result) ==
  IF result.numberOfRecordsUpdated > 0 THEN "UPDATE"
  ELSE IF result.commandTag # "" THEN result.commandTag ELSE "OK"

buildQueryResponse(result) ==
  IF ~result.hasRecords /\ result.numberOfRecordsUpdated \in {-1, 0}
  THEN << buildEmptyQueryResponse, buildReadyForQuery(TRANSACTION_STATUS.IDLE) >>
  ELSE (IF result.hasRecords /\ Len(result.records) > 0
        THEN << buildRowDescription(result.columns) >>
             \o [i \in 1..Len(result.records) |-> buildDataRow(result.records[i])]
             \o << buildCommandComplete("SELECT", Len(result.records)) >>
        ELSE IF result.numberOfRecordsUpdated # -1
        THEN << buildCommandComplete(inferCommandTag(result),
                                     result.numberOfRecordsUpdated) >>
        ELSE << buildCommandComplete(
                  IF result.commandTag # "" THEN result.commandTag ELSE "OK", 0) >>)
       \o << buildReadyForQuery(TRANSACTION_STATUS.IDLE) >>

\* -------------------------------------------------------- query translator
\* sql.trim().replace(/;+$/, '') on the texts of SqlTexts
cleanSql(sql) == IF sql = "COMMIT;" THEN "COMMIT" ELSE sql

\* the three regular expressions of handleTransactionStatement, the one of
\* handleSetStatement and the one of handleShowStatement, on cleaned texts
IsBegin(sql) == sql \in {"BEGIN", "START TRANSACTION"}
IsCommit(sql) == sql \in {"COMMIT", "COMMIT WORK"}
IsRollback(sql) == sql \in {"ROLLBACK", "ROLLBACK WORK"}
IsSet(sql) == sql \in {"SET x = 'a'", "SET x = ''"}
IsShow(sql) == sql \in {"SHOW x"}

createSimpleResponse(commandTag) ==
  [hasRecords |-> TRUE, records |-> << >>, columns |-> 0,
   numberOfRecordsUpdated |-> 0, commandTag |-> commandTag]

createEmptyQueryResponse == createSimpleResponse("EMPTY")

\* the groups of /^SET\s+(\w+)\s*=\s*(.+)$/i on the SET texts of SqlTexts
SetMatch(sql) ==
  IF sql = "SET x = 'a'" THEN [parameter |-> "x", value |-> "'a'"]
  ELSE [parameter |-> "x", value |-> "''"]

\* value.replace(/^['"]|['"]$/g, '') on the values of SetMatch: one quote is
\* taken off each end
cleanValue(value) == IF value = "'a'" THEN "a" ELSE ""

\* handleSetStatement: parameters.set(parameter.toLowerCase(), cleanValue)
handleSetStatement(params, sql) ==
  [params EXCEPT ![SetMatch(sql).parameter] = cleanValue(SetMatch(sql).value)]

\* group 1 of /^show\s+(.+)/ on the lower-cased SHOW texts of SqlTexts, trimmed
ShowParameter(sql) == "x"

\* the names handleShowStatement answers with a fixed value, and the values
\* (server_version without MOCK_PG_VERSION in the environment)
HardCoded ==
  "server_version" :> "14.9" @@ "server_encoding" :> "UTF8" @@ "client_encoding" :> "UTF8"
  @@ "timezone" :> "UTC" @@ "time zone" :> "UTC" @@ "datestyle" :> "ISO, MDY"

\* handleShowStatement: one record with one column holding
\* parameters.get(parameter) || 'unknown' (a value never set and the empty
\* string are both falsy), or the fixed value of a hard-coded name
handleShowStatement(params, sql) ==
  LET parameter == ShowParameter(sql)
      stored == IF parameter \in DOMAIN params THEN params[parameter] ELSE Unset
      value == IF parameter \in DOMAIN HardCoded THEN HardCoded[parameter]
               ELSE IF stored \in {Unset, ""} THEN "unknown" ELSE stored
  IN  [hasRecords |-> TRUE, records |-> << value >>,
       columns |-> 1, numberOfRecordsUpdated |-> 0, commandTag |-> ""]

\* formatResponse of the backend's reply to a forwarded SELECT of one
\* expression: one record with one column
formatResponse(sql) ==
  [hasRecords |-> TRUE, records |-> << "1" >>, columns |-> 1,
   numberOfRecordsUpdated |-> 0, commandTag |-> ""]

\* the result handleExecute passes to the builder: { records: [], columnMetadata: [] }
ExecuteResult ==
  [hasRecords |-> TRUE, records |-> << >>, columns |-> 0,
   numberOfRecordsUpdated |-> -1, commandTag |-> ""]

\* ------------------------------------------------------------------- Init
\* the connection as the constructors leave it
Constructed ==
  /\ state = "startup"
  /\ authenticated = FALSE
  /\ startupParameters = Unset
  /\ inTransaction = FALSE
  /\ parameters = [p \in ParamNames |-> Unset]
  /\ preparedStatements = [s \in StatementNames |-> Unset]
  /\ transactionId = NoTx
  /\ destroyed = FALSE
  /\ ended = FALSE
  /\ closed = FALSE
  /\ tasks = [t \in TaskIds |-> IdleTask]
  /\ running = Free
  /\ out = << >>
  /\ calls = << >>
  /\ nextTx = 1
  /\ log = << >>
  /\ events = 0
  /\ writeFailed = FALSE
  /\ buffer = << >>

\* the parser at rest, before handleData has called it
AtRest ==
  /\ remaining = << >>
  /\ messages = << >>
  /\ parsing = FALSE
  /\ parsed = << >>
  /\ discarded = {}

\* the ProxyServer as its constructor leaves it, and a backend that has begun
\* no transaction
NotStarted ==
  /\ server = "null"
  /\ isRunning = FALSE
  /\ connections = [id \in ConnectionIds |-> NoSocket]
  /\ stats = [totalConnections |-> 0, activeConnections |-> 0, errors |-> 0]
  /\ accepted = << >>
  /\ stopping = << >>
  /\ begun = << >>
  /\ executed = << >>

\* no backend response is being turned into a reply
NoResponse ==
  /\ response = [columnMetadata |-> << >>, records |-> << >>]
  /\ queryResult = << >>
  /\ reply = << >>

Init ==
  /\ Constructed
  /\ AtRest
  /\ feed = << >>
  /\ NotStarted
  /\ NoResponse

\* ----------------------------------------------------------- control flow
\* The log is written by the operators below; lg is the log as the calling
\* action leaves it.

\* the log with the protocol state in which invocation t takes up its message
Dispatched(t) == [log EXCEPT ![Cur(t)].at = state]

\* processMessage (or the SSL branch) is done with the message: the for loop
\* of handleData goes on, and handleData returns after the last message
Finish(t, lg) ==
  /\ log' = [lg EXCEPT ![Cur(t)].fin = TRUE]
  /\ IF Len(tasks[t].msgs) = 1
     THEN tasks' = [tasks EXCEPT ![t] = IdleTask] /\ running' = Free
     ELSE /\ tasks' = [tasks EXCEPT ![t] = [pc |-> "loop", msgs |-> Tail(tasks[t].msgs),
                                            k |-> "", ctx |-> ""]]
          /\ running' = t

\* handleData returns from its catch block: the rest of the chunk is dropped,
\* so the invocation is done with every message it still held
Return(t, lg) ==
  /\ log' = [i \in DOMAIN lg |->
               IF \E j \in DOMAIN tasks[t].msgs : tasks[t].msgs[j].n = i
               THEN [lg[i] EXCEPT !.fin = TRUE] ELSE lg[i]]
  /\ tasks' = [tasks EXCEPT ![t] = IdleTask]
  /\ running' = Free

\* invocation t goes on at k without leaving the event loop
GoTo(t, k, lg) ==
  CASE k = "next" -> Finish(t, lg)
    [] k = "ret" -> Return(t, lg)
    [] OTHER -> /\ tasks' = [tasks EXCEPT ![t].pc = k, ![t].k = ""]
                /\ running' = t
                /\ log' = lg

\* where invocation t goes on when it is given the event loop: the point it
\* holds, or the one its write callback leads to
ResumePoint(t) ==
  IF running = t THEN tasks[t].pc
  ELSE IF running = Free /\ tasks[t].pc = "await_write" THEN tasks[t].k
  ELSE ""

\* sendMessage without the check of socket.destroyed.
sendMessageAfter_NoCheck(t, buf, kOk, kFail, lg, ev) ==
  \E ok \in (IF ended THEN {FALSE} ELSE IF ev < MaxEvents THEN BOOLEAN ELSE {TRUE}) :
    /\ tasks' = [tasks EXCEPT ![t].pc = "await_write",
                              ![t].k = IF ok THEN kOk ELSE kFail]
    /\ out' = IF ok THEN out \o Tag(Cur(t), buf) ELSE out
    /\ events' = IF ok \/ ended THEN ev ELSE ev + 1
    /\ writeFailed' = (writeFailed \/ ~ok)
    /\ running' = Free
    /\ log' = lg

\* PostgreSQLProtocolHandler.sendMessage called by invocation t with the
\* messages buf: it throws at once on a destroyed socket; otherwise the bytes
\* are handed to socket.write and t is suspended until the write callback,
\* after which it goes on at kOk, or at kFail when the callback reports an
\* error.  A write after socket.end() fails.  ev is the number of faults as
\* the calling action leaves it.
sendMessageAfter(t, buf, kOk, kFail, lg, ev) ==
  IF destroyed
  THEN /\ GoTo(t, kFail, lg)
       /\ events' = ev
       /\ UNCHANGED << out, writeFailed >>
  ELSE \E ok \in (IF ended THEN {FALSE} ELSE IF ev < MaxEvents THEN BOOLEAN ELSE {TRUE}) :
         /\ tasks' = [tasks EXCEPT ![t].pc = "await_write",
                                   ![t].k = IF ok THEN kOk ELSE kFail]
         /\ out' = IF ok THEN out \o Tag(Cur(t), buf) ELSE out
         /\ events' = IF ok \/ ended THEN ev ELSE ev + 1
         /\ writeFailed' = (writeFailed \/ ~ok)
         /\ running' = Free
         /\ log' = lg

sendMessage(t, buf, kOk, kFail, lg) == sendMessageAfter(t, buf, kOk, kFail, lg, events)

\* sendError: the ErrorResponse write; a failure of the write is swallowed,
\* so the caller goes on at k either way
sendError(t, k, lg) == sendMessage(t, << buildErrorResponse(PlainError) >>, k, k, lg)

\* handleSimpleQuery after the backend call it awaited: the reply of a
\* result is written (a failed write is thrown to its catch), or the error
\* the call threw is sent from the catch
AfterCall(t, ok, result) ==
  IF ok
  THEN sendMessageAfter(t, buildQueryResponse(result), "next", "query_catch", log, events)
  ELSE \E name \in ErrorNames :
         sendMessageAfter(t, << buildErrorResponse(formatError(name)) >>,
                          "query_ready", "query_ready",
                          [log EXCEPT ![Cur(t)].error = name], events + 1)

\* the callback of the last write of processMessage, or of the catch of
\* handleData, resumes the invocation
WriteCallback(t) ==
  /\ running = Free
  /\ tasks[t].pc = "await_write"
  /\ tasks[t].k \in {"next", "ret"}
  /\ GoTo(t, tasks[t].k, log)
  /\ UNCHANGED << proto, session, transactionId, socket, out, calls, env >>
  /\ UNCHANGED << parser, manager, builder >>

\* ------------------------------------------------- ConnectionHandler events
\* the handshake is not complete: the connection is not ready yet
Early == state \in {"startup", "authentication"}

\* the protocols the messages received since the handshake belong to
Spoken ==
  {A \in Protocols :
     \A i \in DOMAIN log : ~log[i].early => [type |-> log[i].type, sql |-> log[i].sql] \in A}

\* the number of messages received before (e = TRUE) or after the handshake
Received(e) == Cardinality({i \in DOMAIN log : log[i].early = e})

\* the number of messages the client may still send in the present phase
Budget == IF Early THEN MaxPre - Received(TRUE) ELSE MaxMsgs - Received(FALSE)

\* the data chunks the client may send next: at most MaxChunk messages, and
\* of one protocol once the connection is ready
Inputs ==
  LET room == IF Budget < MaxChunk THEN Budget ELSE MaxChunk
      alphabets == IF Early THEN {EarlyMessages} ELSE Spoken
  IN  UNION { UNION { [1..n -> A] : n \in 1..room } : A \in alphabets }

\* socket 'data': #handleData calls protocolHandler.handleData(data), which
\* parses the chunk into messages and enters its for loop
DataArrive ==
  /\ running = Free
  /\ ~destroyed /\ ~closed
  /\ Budget > 0
  /\ \E t \in DataTasks :
       /\ tasks[t].pc = "idle"
       /\ \A u \in DataTasks : tasks[u].pc = "idle" => t <= u
       /\ \E c \in Inputs :
            /\ tasks' = [tasks EXCEPT ![t] =
                 [pc |-> "loop",
                  msgs |-> [i \in 1..Len(c) |->
                             [n |-> Len(log) + i, type |-> c[i].type, sql |-> c[i].sql]],
                  k |-> "", ctx |-> ""]]
            /\ log' = log \o [i \in 1..Len(c) |->
                               [type |-> c[i].type, sql |-> c[i].sql, early |-> Early,
                                at |-> "-", fin |-> FALSE, error |-> ""]]
       /\ running' = t
  /\ UNCHANGED << proto, session, transactionId, socket, out, calls, env >>
  /\ UNCHANGED << parser, manager, builder >>

\* invocation t is at the top of the for loop of handleData
AtLoop(t) ==
  /\ running = t
  /\ tasks[t].pc = "loop"

Msg(t) == Head(tasks[t].msgs)

\* mutant: the SSL request is answered with an ErrorResponse after the 'N'
HandleSSL_AlsoError(t) ==
  /\ AtLoop(t)
  /\ Msg(t).type = "ssl_request"
  /\ sendMessage(t, << Tok("N", ""), buildErrorResponse(PlainError) >>, "next", "hd_catch",
                 Dispatched(t))
  /\ UNCHANGED << proto, session, transactionId, socket, calls, nextTx >>
  /\ UNCHANGED << parser, manager, builder >>

\* mutant: the SSL branch returns from handleData instead of going on with
\* the next message of the chunk
HandleSSL_Return(t) ==
  /\ AtLoop(t)
  /\ Msg(t).type = "ssl_request"
  /\ sendMessage(t, << Tok("N", "") >>, "ret", "hd_catch", Dispatched(t))
  /\ UNCHANGED << proto, session, transactionId, socket, calls, nextTx >>
  /\ UNCHANGED << parser, manager, builder >>

\* handleData, message.isSSL: write the byte 'N'; a failed write leaves the
\* loop through the catch of handleData
HandleSSL(t) ==
  /\ AtLoop(t)
  /\ Msg(t).type = "ssl_request"
  /\ sendMessage(t, << Tok("N", "") >>, "next", "hd_catch", Dispatched(t))
  /\ UNCHANGED << proto, session, transactionId, socket, calls, nextTx >>
  /\ UNCHANGED << parser, manager, builder >>

\* the catch of handleData: sendError, then handleData returns
HdCatch(t) ==
  /\ ResumePoint(t) = "hd_catch"
  /\ sendError(t, "ret", log)
  /\ UNCHANGED << proto, session, transactionId, socket, calls, nextTx >>
  /\ UNCHANGED << parser, manager, builder >>

\* the catch of processMessage: sendError, then processMessage returns
PmCatch(t) ==
  /\ ResumePoint(t) = "pm_catch"
  /\ sendError(t, "next", log)
  /\ UNCHANGED << proto, session, transactionId, socket, calls, nextTx >>
  /\ UNCHANGED << parser, manager, builder >>

\* processMessage takes up a message in protocol state st
AtState(t, st) ==
  /\ AtLoop(t)
  /\ Msg(t).type # "ssl_request"
  /\ state = st

\* ------------------------------------------------- startup, authentication
\* processMessage in state startup: handleStartup; a message of another type
\* is thrown to the catch of processMessage
handleStartup(t) ==
  /\ AtState(t, "startup")
  /\ IF Msg(t).type # "startup"
     THEN sendError(t, "next", Dispatched(t)) /\ UNCHANGED startupParameters
     ELSE /\ startupParameters' = "captured"
          /\ sendMessage(t, << Tok("AuthenticationCleartextPassword", "") >>,
                         "startup_done", "pm_catch", Dispatched(t))
  /\ UNCHANGED << state, authenticated, session, transactionId, socket, calls,
                  nextTx >>
  /\ UNCHANGED << parser, manager, builder >>

\* mutant: handleStartup forgets to move to authentication
StartupDone_StateKept(t) ==
  /\ ResumePoint(t) = "startup_done"
  /\ Finish(t, log)
  /\ UNCHANGED << state, authenticated, startupParameters, session, transactionId,
                  socket, out, calls, env >>
  /\ UNCHANGED << parser, manager, builder >>

\* handleStartup after its write: this.state = STATES.AUTHENTICATION
StartupDone(t) ==
  /\ ResumePoint(t) = "startup_done"
  /\ state' = "authentication"
  /\ Finish(t, log)
  /\ UNCHANGED << authenticated, startupParameters, session, transactionId, socket,
                  out, calls, env >>
  /\ UNCHANGED << parser, manager, builder >>

\* processMessage in state authentication: handleAuthentication, up to the
\* first write of sendAuthenticationSuccess
handleAuthentication(t) ==
  /\ AtState(t, "authentication")
  /\ IF Msg(t).type # "password"
     THEN sendError(t, "next", Dispatched(t))
     ELSE sendMessage(t, << Tok("AuthenticationOk", "") >>, "auth_key", "pm_catch",
                      Dispatched(t))
  /\ UNCHANGED << proto, session, transactionId, socket, calls, nextTx >>
  /\ UNCHANGED << parser, manager, builder >>

\* sendAuthenticationSuccess: the three writes after AuthenticationOk
sendAuthenticationSuccess(t) ==
  /\ CASE ResumePoint(t) = "auth_key" ->
            sendMessage(t, << Tok("BackendKeyData", "") >>, "auth_params", "pm_catch", log)
       [] ResumePoint(t) = "auth_params" ->
            sendMessage(t, buildStartupParameters, "auth_ready", "pm_catch", log)
       [] ResumePoint(t) = "auth_ready" ->
            sendMessage(t, << buildReadyForQuery(TRANSACTION_STATUS.IDLE) >>,
                        "auth_done", "pm_catch", log)
       [] OTHER -> FALSE
  /\ UNCHANGED << proto, session, transactionId, socket, calls, nextTx >>
  /\ UNCHANGED << parser, manager, builder >>

\* handleAuthentication after sendAuthenticationSuccess: authenticated, ready
AuthenticationDone(t) ==
  /\ ResumePoint(t) = "auth_done"
  /\ authenticated' = TRUE
  /\ state' = "ready"
  /\ Finish(t, log)
  /\ UNCHANGED << startupParameters, session, transactionId, socket, out, calls, env >>
  /\ UNCHANGED << parser, manager, builder >>

\* processMessage in state terminated: the message is ignored
IgnoreTerminated(t) ==
  /\ AtState(t, "terminated")
  /\ Finish(t, Dispatched(t))
  /\ UNCHANGED << proto, session, transactionId, socket, out, calls, env >>
  /\ UNCHANGED << parser, manager, builder >>

\* ----------------------------------------------------------- ready: queries
\* mutant: processMessage hands a message to handleQuery in state
\* authentication as well
AtReady_Unauthenticated(t, ty) ==
  /\ AtLoop(t)
  /\ Msg(t).type # "ssl_request"
  /\ state \in {"ready", "authentication"}
  /\ Msg(t).type = ty

\* processMessage in state ready dispatches message type ty through handleQuery
AtReady(t, ty) ==
  /\ AtState(t, "ready")
  /\ Msg(t).type = ty

\* the backend call op is sent for invocation t, which is suspended on it
BackendCall(t, op, pc, lg) ==
  /\ calls' = Append(calls, [m |-> Cur(t), op |-> op, tx |-> transactionId])
  /\ tasks' = [tasks EXCEPT ![t].pc = pc]
  /\ running' = Free
  /\ log' = lg

\* handleSimpleQuery writes the composed reply of a result; a failed write is
\* thrown to its catch
Reply(t, result, lg) ==
  sendMessage(t, buildQueryResponse(result), "next", "query_catch", lg)

\* handleSimpleQuery, translateAndExecute for the statements answered locally:
\* the empty statement, COMMIT and ROLLBACK while the client holds no
\* transaction identifier, SET and SHOW
QueryLocal(t) ==
  /\ AtReady(t, "query")
  /\ LET sql == cleanSql(Msg(t).sql) IN
       \/ /\ sql = ""
          /\ Reply(t, createEmptyQueryResponse, Dispatched(t))
          /\ UNCHANGED session
       \/ /\ IsCommit(sql) /\ transactionId = NoTx
          /\ inTransaction' = FALSE
          /\ Reply(t, createSimpleResponse("COMMIT"), Dispatched(t))
          /\ UNCHANGED << parameters, preparedStatements >>
       \/ /\ IsRollback(sql) /\ transactionId = NoTx
          /\ inTransaction' = FALSE
          /\ Reply(t, createSimpleResponse("ROLLBACK"), Dispatched(t))
          /\ UNCHANGED << parameters, preparedStatements >>
       \/ /\ IsSet(sql)
          /\ parameters' = handleSetStatement(parameters, sql)
          /\ Reply(t, createSimpleResponse("SET"), Dispatched(t))
          /\ UNCHANGED << inTransaction, preparedStatements >>
       \/ /\ IsShow(sql)
          /\ Reply(t, handleShowStatement(parameters, sql), Dispatched(t))
          /\ UNCHANGED session
  /\ UNCHANGED << proto, transactionId, socket, calls, nextTx >>
  /\ UNCHANGED << parser, manager, builder >>

\* handleTransactionStatement, BEGIN: DataAPIClient.beginTransaction sends the
\* begin call
QueryBegin(t) ==
  /\ AtReady(t, "query")
  /\ IsBegin(cleanSql(Msg(t).sql))
  /\ BackendCall(t, "begin", "await_begin", Dispatched(t))
  /\ UNCHANGED << proto, session, transactionId, socket, out, env >>
  /\ UNCHANGED << parser, manager, builder >>

\* beginTransaction resumes: the identifier is stored, the flag is set and
\* CommandComplete("BEGIN") is written; a failure is thrown to the catch of
\* handleSimpleQuery
BeginReturn(t) ==
  /\ running = Free
  /\ tasks[t].pc = "await_begin"
  /\ \E ok \in Outcomes :
       /\ IF ok
          THEN /\ transactionId' = nextTx
               /\ nextTx' = nextTx + 1
               /\ inTransaction' = TRUE
          ELSE UNCHANGED << transactionId, nextTx, inTransaction >>
       /\ AfterCall(t, ok, createSimpleResponse("BEGIN"))
  /\ UNCHANGED << proto, parameters, preparedStatements, socket, calls >>
  /\ UNCHANGED << parser, manager, builder >>

\* handleTransactionStatement, COMMIT or ROLLBACK while isInTransaction():
\* commitTransaction / rollbackTransaction send their call
QueryEndTransaction(t) ==
  /\ AtReady(t, "query")
  /\ transactionId # NoTx
  /\ LET sql == cleanSql(Msg(t).sql) IN
       \/ IsCommit(sql) /\ BackendCall(t, "commit", "await_commit", Dispatched(t))
       \/ IsRollback(sql) /\ BackendCall(t, "rollback", "await_rollback", Dispatched(t))
  /\ UNCHANGED << proto, session, transactionId, socket, out, env >>
  /\ UNCHANGED << parser, manager, builder >>

\* mutant: a successful commit or rollback leaves the in-transaction flag set
EndTransactionReturn_FlagKept(t) ==
  /\ running = Free
  /\ tasks[t].pc \in {"await_commit", "await_rollback"}
  /\ \E ok \in Outcomes :
       /\ IF ok
          THEN transactionId' = NoTx /\ UNCHANGED inTransaction
          ELSE UNCHANGED << transactionId, inTransaction >>
       /\ AfterCall(t, ok, createSimpleResponse(
            IF tasks[t].pc = "await_commit" THEN "COMMIT" ELSE "ROLLBACK"))
  /\ UNCHANGED << proto, parameters, preparedStatements, socket, calls, nextTx >>
  /\ UNCHANGED << parser, manager, builder >>

\* commitTransaction / rollbackTransaction resume: on success the identifier
\* is set to null, the flag is cleared and CommandComplete is written; on
\* failure the catch block rethrows and the identifier stays
EndTransactionReturn(t) ==
  /\ running = Free
  /\ tasks[t].pc \in {"await_commit", "await_rollback"}
  /\ \E ok \in Outcomes :
       /\ IF ok
          THEN transactionId' = NoTx /\ inTransaction' = FALSE
          ELSE UNCHANGED << transactionId, inTransaction >>
       /\ AfterCall(t, ok, createSimpleResponse(
            IF tasks[t].pc = "await_commit" THEN "COMMIT" ELSE "ROLLBACK"))
  /\ UNCHANGED << proto, parameters, preparedStatements, socket, calls, nextTx >>
  /\ UNCHANGED << parser, manager, builder >>

\* a statement no rule of translateAndExecute matches
IsForwarded(sql) ==
  ~(sql = "" \/ IsBegin(sql) \/ IsCommit(sql) \/ IsRollback(sql) \/ IsSet(sql) \/ IsShow(sql))

\* translateAndExecute, default: DataAPIClient.executeStatement sends the
\* execute call with the transaction identifier held at that moment
QueryForward(t) ==
  /\ AtReady(t, "query")
  /\ IsForwarded(cleanSql(Msg(t).sql))
  /\ BackendCall(t, "execute", "await_execute", Dispatched(t))
  /\ UNCHANGED << proto, session, transactionId, socket, out, env >>
  /\ UNCHANGED << parser, manager, builder >>

\* executeStatement resumes: the formatted result is written, or the error
\* is thrown to the catch of handleSimpleQuery
ExecuteReturn(t) ==
  /\ running = Free
  /\ tasks[t].pc = "await_execute"
  /\ \E ok \in Outcomes :
       AfterCall(t, ok, formatResponse(Msg(t).sql))
  /\ UNCHANGED << proto, session, transactionId, socket, calls, nextTx >>
  /\ UNCHANGED << parser, manager, builder >>

\* the catch of handleSimpleQuery after a failed reply write: sendError
QueryCatch(t) ==
  /\ ResumePoint(t) = "query_catch"
  /\ sendError(t, "query_ready", log)
  /\ UNCHANGED << proto, session, transactionId, socket, calls, nextTx >>
  /\ UNCHANGED << parser, manager, builder >>

\* mutant: the catch of handleSimpleQuery ends after sendError
QueryReady_NoReady(t) ==
  /\ ResumePoint(t) = "query_ready"
  /\ GoTo(t, "next", log)
  /\ UNCHANGED << proto, session, transactionId, socket, out, calls, env >>
  /\ UNCHANGED << parser, manager, builder >>

\* the catch of handleSimpleQuery after sendError: the ReadyForQuery write,
\* whose failure is thrown to processMessage
QueryReady(t) ==
  /\ ResumePoint(t) = "query_ready"
  /\ sendMessage(t, << buildReadyForQuery(TRANSACTION_STATUS.IDLE) >>,
                 "next", "pm_catch", log)
  /\ UNCHANGED << proto, session, transactionId, socket, calls, nextTx >>
  /\ UNCHANGED << parser, manager, builder >>

\* --------------------------------------------------- ready: extended protocol
\* a handler whose whole effect is one write
Acknowledge(t, buf) ==
  /\ sendMessage(t, buf, "next", "pm_catch", Dispatched(t))
  /\ UNCHANGED << proto, session, transactionId, socket, calls, nextTx >>
  /\ UNCHANGED << parser, manager, builder >>

handleParse(t) == AtReady(t, "parse") /\ Acknowledge(t, << Tok("ParseComplete", "") >>)

handleBind(t) == AtReady(t, "bind") /\ Acknowledge(t, << Tok("BindComplete", "") >>)

handleExecute(t) == AtReady(t, "execute") /\ Acknowledge(t, buildQueryResponse(ExecuteResult))

handleDescribe(t) == AtReady(t, "describe") /\ Acknowledge(t, << buildRowDescription(0) >>)

\* mutant: handleSync calls buildReadyForQuery() without the status
handleSync_DefaultStatus(t) ==
  /\ AtReady(t, "sync")
  /\ Acknowledge(t, << buildReadyForQuery(TRANSACTION_STATUS.IDLE) >>)

\* handleSync: ReadyForQuery with the status of the session's transaction flag
handleSync(t) ==
  /\ AtReady(t, "sync")
  /\ Acknowledge(t, << buildReadyForQuery(IF inTransaction
                                          THEN TRANSACTION_STATUS.TRANSACTION
                                          ELSE TRANSACTION_STATUS.IDLE) >>)

\* handleQuery, default branch: the message is logged and ignored
handleUnknown(t) ==
  /\ AtReady(t, "unknown")
  /\ Finish(t, Dispatched(t))
  /\ UNCHANGED << proto, session, transactionId, socket, out, calls, env >>
  /\ UNCHANGED << parser, manager, builder >>

\* ---------------------------------------------------------------- cleanup
\* what follows QueryTranslator.cleanup() in the caller ctx:
\*   "close"     handleClose() called by handleQuery for a Close message
\*   "terminate" handleTerminate, which also calls socket.end()
\*   "socket"    handleClose() called by the socket 'close' event
\* mutant: handleTerminate forgets socket.end()
AfterCleanup_NoEnd(t, ctx, lg) ==
  /\ state' = "terminated"
  /\ UNCHANGED ended
  /\ IF ctx = "socket"
     THEN tasks' = [tasks EXCEPT ![t] = IdleTask] /\ running' = Free /\ log' = lg
     ELSE Finish(t, lg)

AfterCleanup(t, ctx, lg) ==
  /\ state' = "terminated"
  /\ ended' = IF ctx = "terminate" THEN TRUE ELSE ended
  /\ IF ctx = "socket"
     THEN tasks' = [tasks EXCEPT ![t] = IdleTask] /\ running' = Free /\ log' = lg
     ELSE Finish(t, lg)

\* QueryTranslator.cleanup after dataApiClient.cleanup(): the session is reset
ResetSession ==
  /\ parameters' = [p \in ParamNames |-> Unset]
  /\ preparedStatements' = [s \in StatementNames |-> Unset]
  /\ inTransaction' = FALSE

\* QueryTranslator.cleanup -> DataAPIClient.cleanup: with a transaction
\* identifier held the rollback call is sent and the caller is suspended,
\* otherwise the session is reset at once
Cleanup(t, ctx, lg) ==
  IF transactionId # NoTx
  THEN /\ calls' = Append(calls, [m |-> Cur(t), op |-> "rollback", tx |-> transactionId])
       /\ tasks' = [tasks EXCEPT ![t].pc = "await_cleanup", ![t].ctx = ctx]
       /\ running' = Free
       /\ log' = lg
       /\ UNCHANGED << state, ended, session >>
  ELSE /\ ResetSession
       /\ AfterCleanup(t, ctx, lg)
       /\ UNCHANGED calls

\* handleQuery case 'close': this.handleClose(message) resolves to the second
\* method named handleClose of the class, which runs cleanup and terminates
handleClose(t) ==
  /\ AtReady(t, "close")
  /\ Cleanup(t, "close", Dispatched(t))
  /\ UNCHANGED << authenticated, startupParameters, transactionId, destroyed, closed,
                  out, env >>
  /\ UNCHANGED << parser, manager, builder >>

\* handleQuery case 'terminate': cleanup, terminated, socket.end()
handleTerminate(t) ==
  /\ AtReady(t, "terminate")
  /\ Cleanup(t, "terminate", Dispatched(t))
  /\ UNCHANGED << authenticated, startupParameters, transactionId, destroyed, closed,
                  out, env >>
  /\ UNCHANGED << parser, manager, builder >>

\* the rollback of cleanup resumes: on success the identifier is set to null,
\* a failure is caught and logged; the session is reset either way
CleanupReturn(t) ==
  /\ running = Free
  /\ tasks[t].pc = "await_cleanup"
  /\ \E ok \in Outcomes :
       /\ transactionId' = IF ok THEN NoTx ELSE transactionId
       /\ events' = IF ok THEN events ELSE events + 1
  /\ ResetSession
  /\ AfterCleanup(t, tasks[t].ctx, log)
  /\ UNCHANGED << authenticated, startupParameters, destroyed, closed, out, calls,
                  nextTx, writeFailed >>
  /\ UNCHANGED << parser, manager, builder >>

\* ------------------------------------------------------------ socket events
\* socket 'error': #handleError -> protocolHandler.handleError destroys the socket
SocketError ==
  /\ running = Free
  /\ ~closed /\ ~destroyed
  /\ CanFault
  /\ destroyed' = TRUE
  /\ events' = events + 1
  /\ UNCHANGED << proto, session, transactionId, ended, closed, tasks, running, out,
                  calls, log, nextTx, writeFailed >>
  /\ UNCHANGED << parser, manager, builder >>

\* ConnectionHandler.closeConnection: the socket is destroyed unless it is
\* destroyed already
closeConnection ==
  /\ running = Free
  /\ ~closed /\ ~destroyed
  /\ CanFault
  /\ destroyed' = TRUE
  /\ events' = events + 1
  /\ UNCHANGED << proto, session, transactionId, ended, closed, tasks, running, out,
                  calls, log, nextTx, writeFailed >>
  /\ UNCHANGED << parser, manager, builder >>

\* socket 'timeout': #handleTimeout -> closeConnection destroys the socket
SocketTimeout == closeConnection

\* ConnectionHandler.forceClose, called by the server for every connection
\* when it shuts down
forceClose == closeConnection

\* socket 'close': it follows socket.destroy() and socket.end(), or the peer
\* went away, which is a fault of the environment.  The callbacks of the
\* writes handed to the socket are delivered before the event is emitted.
\* #handleClose calls protocolHandler.handleClose() without awaiting it
SocketClose ==
  /\ running = Free
  /\ ~closed
  /\ destroyed \/ ended \/ CanFault
  /\ \A t \in DataTasks : tasks[t].pc # "await_write"
  /\ closed' = TRUE
  /\ destroyed' = TRUE
  /\ events' = IF destroyed \/ ended THEN events ELSE events + 1
  /\ Cleanup(Closer, "socket", log)
  /\ UNCHANGED << authenticated, startupParameters, transactionId, out, nextTx,
                  writeFailed >>
  /\ UNCHANGED << parser, manager, builder >>

\* ------------------------------------------------------------------- Next
Next ==
  \/ DataArrive
  \/ SocketError
  \/ SocketTimeout
  \/ forceClose
  \/ SocketClose
  \/ \E t \in TaskIds : CleanupReturn(t)
  \/ \E t \in DataTasks :
        \/ WriteCallback(t)
        \/ HandleSSL(t)
        \/ HdCatch(t)
        \/ PmCatch(t)
        \/ handleStartup(t)
        \/ StartupDone(t)
        \/ handleAuthentication(t)
        \/ sendAuthenticationSuccess(t)
        \/ AuthenticationDone(t)
        \/ IgnoreTerminated(t)
        \/ QueryLocal(t)
        \/ QueryBegin(t)
        \/ BeginReturn(t)
        \/ QueryEndTransaction(t)
        \/ EndTransactionReturn(t)
        \/ QueryForward(t)
        \/ ExecuteReturn(t)
        \/ QueryCatch(t)
        \/ QueryReady(t)
        \/ handleParse(t)
        \/ handleBind(t)
        \/ handleExecute(t)
        \/ handleDescribe(t)
        \/ handleSync(t)
        \/ handleUnknown(t)
        \/ handleClose(t)
        \/ handleTerminate(t)

Spec == Init /\ [][Next]_vars

\* ------------------------------------------- from the password request on
\* The connection as the startup exchange leaves it: handleStartup has
\* captured the parameters, written the password request and moved the state
\* to authentication, and no invocation is left.  log, out and calls record
\* what is received, written and called from here on.
Authenticating ==
  /\ state = "authentication"
  /\ authenticated = FALSE
  /\ startupParameters = "captured"
  /\ inTransaction = FALSE
  /\ parameters = [p \in ParamNames |-> Unset]
  /\ preparedStatements = [s \in StatementNames |-> Unset]
  /\ transactionId = NoTx
  /\ destroyed = FALSE
  /\ ended = FALSE
  /\ closed = FALSE
  /\ tasks = [t \in TaskIds |-> IdleTask]
  /\ running = Free
  /\ out = << >>
  /\ calls = << >>
  /\ nextTx = 1
  /\ log = << >>
  /\ events = 0
  /\ writeFailed = FALSE
  /\ buffer = << >>

AuthInit == Authenticating /\ AtRest /\ feed = << >> /\ NotStarted /\ NoResponse

\* the steps of a connection that has left state startup, for a client that
\* sends at most MaxAuthMsgs messages from then on
AuthNext ==
  \/ DataArrive /\ Len(log') <= MaxAuthMsgs
  \/ SocketError
  \/ SocketTimeout
  \/ forceClose
  \/ SocketClose
  \/ \E t \in TaskIds : CleanupReturn(t)
  \/ \E t \in DataTasks :
        \/ WriteCallback(t)
        \/ HandleSSL(t)
        \/ HdCatch(t)
        \/ PmCatch(t)
        \/ handleAuthentication(t)
        \/ sendAuthenticationSuccess(t)
        \/ AuthenticationDone(t)
        \/ IgnoreTerminated(t)
        \/ QueryLocal(t)
        \/ QueryBegin(t)
        \/ BeginReturn(t)
        \/ QueryEndTransaction(t)
        \/ EndTransactionReturn(t)
        \/ QueryForward(t)
        \/ ExecuteReturn(t)
        \/ QueryCatch(t)
        \/ QueryReady(t)
        \/ handleParse(t)
        \/ handleBind(t)
        \/ handleExecute(t)
        \/ handleDescribe(t)
        \/ handleSync(t)
        \/ handleUnknown(t)
        \/ handleClose(t)
        \/ handleTerminate(t)

AuthSpec == AuthInit /\ [][AuthNext]_vars

TypeOK ==
  /\ state \in STATES
  /\ running \in TaskIds \cup {Free}
  /\ transactionId \in 0..(nextTx - 1)
  /\ Len(log) <= MaxPre + MaxMsgs

\* ============================================================ proxy server
\* The ProxyServer and the connections it accepts.  Each connection has its
\* own ConnectionHandler, PostgreSQLProtocolHandler, QueryTranslator and
\* DataAPIClient, made by the constructors; the handling of one message is
\* taken as one step here.

\* new ConnectionHandler(socket) with the id #generateConnectionId returned
ConnectionHandler(id) ==
  [connectionId |-> id, destroyed |-> FALSE, ended |-> FALSE, closed |-> FALSE,
   state |-> "startup", inTransaction |-> FALSE, parameters |-> Unset,
   transactionId |-> NoTx, cleanups |-> 0, idle |-> FALSE]

Sockets == DOMAIN accepted

Open(c) == ~accepted[c].destroyed /\ ~accepted[c].ended /\ ~accepted[c].closed

unchangedServer == UNCHANGED << server, isRunning, connections, stats, stopping >>

\* ProxyServer.start: the server is created and told to listen
startServer ==
  /\ server = "null"
  /\ server' = "created"
  /\ UNCHANGED << isRunning, connections, stats, accepted, stopping, begun, executed >>
  /\ UNCHANGED << connection, parser, builder >>

\* the callback of server.listen
listening ==
  /\ server = "created"
  /\ server' = "listening"
  /\ isRunning' = TRUE
  /\ UNCHANGED << connections, stats, accepted, stopping, begun, executed >>
  /\ UNCHANGED << connection, parser, builder >>

\* ProxyServer.handleNewConnection for a socket whose handler got the id
handleNewConnection(id) ==
  /\ server = "listening"
  /\ Len(accepted) < MaxSockets
  /\ accepted' = Append(accepted, ConnectionHandler(id))
  /\ connections' = [connections EXCEPT ![id] = Len(accepted) + 1]
  /\ stats' = [stats EXCEPT !.totalConnections = @ + 1, !.activeConnections = @ + 1]
  /\ UNCHANGED << server, isRunning, stopping, begun, executed >>
  /\ UNCHANGED << connection, parser, builder >>

\* the startup message and the password of connection c were handled
handshake(c) ==
  /\ Open(c)
  /\ accepted[c].state = "startup"
  /\ accepted' = [accepted EXCEPT ![c].state = "ready", ![c].idle = FALSE]
  /\ unchangedServer
  /\ UNCHANGED << begun, executed >>
  /\ UNCHANGED << connection, parser, builder >>

\* a SET statement of connection c was handled
setParameter(c) ==
  /\ Open(c)
  /\ accepted[c].state = "ready"
  /\ accepted[c].parameters = Unset
  /\ accepted' = [accepted EXCEPT ![c].parameters = "a", ![c].idle = FALSE]
  /\ unchangedServer
  /\ UNCHANGED << begun, executed >>
  /\ UNCHANGED << connection, parser, builder >>

\* mutant: one DataAPIClient serves every connection
beginTransaction_Shared(c) ==
  /\ Open(c)
  /\ accepted[c].state = "ready"
  /\ accepted[c].transactionId = NoTx
  /\ Len(begun) < MaxTx
  /\ begun' = Append(begun, c)
  /\ accepted' = [d \in Sockets |->
                    [accepted[d] EXCEPT !.transactionId = Len(begun) + 1,
                                        !.inTransaction = IF d = c THEN TRUE ELSE @]]
  /\ unchangedServer
  /\ UNCHANGED executed
  /\ UNCHANGED << connection, parser, builder >>

\* BEGIN on connection c: its DataAPIClient obtains a transaction identifier
beginTransaction(c) ==
  /\ Open(c)
  /\ accepted[c].state = "ready"
  /\ accepted[c].transactionId = NoTx
  /\ Len(begun) < MaxTx
  /\ begun' = Append(begun, c)
  /\ accepted' = [accepted EXCEPT ![c].transactionId = Len(begun) + 1,
                                   ![c].inTransaction = TRUE,
                                   ![c].idle = FALSE]
  /\ unchangedServer
  /\ UNCHANGED executed
  /\ UNCHANGED << connection, parser, builder >>

\* a forwarded statement of connection c: the execute call carries the
\* transaction identifier of the connection's DataAPIClient
executeStatement(c) ==
  /\ Open(c)
  /\ accepted[c].state = "ready"
  /\ executed' = << c, accepted[c].transactionId >>
  /\ accepted' = [accepted EXCEPT ![c].idle = FALSE]
  /\ unchangedServer
  /\ UNCHANGED begun
  /\ UNCHANGED << connection, parser, builder >>

\* COMMIT on connection c with a transaction open
commitTransaction(c) ==
  /\ Open(c)
  /\ accepted[c].state = "ready"
  /\ accepted[c].transactionId # NoTx
  /\ accepted' = [accepted EXCEPT ![c].transactionId = NoTx,
                                   ![c].inTransaction = FALSE,
                                   ![c].idle = FALSE]
  /\ unchangedServer
  /\ UNCHANGED << begun, executed >>
  /\ UNCHANGED << connection, parser, builder >>

\* QueryTranslator.cleanup of a connection: the open transaction is rolled
\* back and the session is reset
cleanup(h) ==
  [h EXCEPT !.transactionId = NoTx, !.inTransaction = FALSE, !.parameters = Unset,
            !.cleanups = IF @ < 2 THEN @ + 1 ELSE @]

\* Terminate on connection c: cleanup, terminated, socket.end()
terminate(c) ==
  /\ Open(c)
  /\ accepted[c].state = "ready"
  /\ accepted' = [accepted EXCEPT ![c] = [cleanup(@) EXCEPT !.state = "terminated",
                                                           !.ended = TRUE]]
  /\ unchangedServer
  /\ UNCHANGED << begun, executed >>
  /\ UNCHANGED << connection, parser, builder >>

\* socket 'error' of connection c: the protocol handler destroys the socket
\* and the server's listener counts the error
handleConnectionError(c) ==
  /\ ~accepted[c].destroyed /\ ~accepted[c].closed
  /\ accepted' = [accepted EXCEPT ![c].destroyed = TRUE]
  /\ stats' = [stats EXCEPT !.errors = @ + 1]
  /\ UNCHANGED << server, isRunning, connections, stopping, begun, executed >>
  /\ UNCHANGED << connection, parser, builder >>

\* nothing has been received from the client of connection c since the
\* timer set by socket.setTimeout was started
quiet(c) ==
  /\ Open(c)
  /\ ~accepted[c].idle
  /\ accepted' = [accepted EXCEPT ![c].idle = TRUE]
  /\ unchangedServer
  /\ UNCHANGED << begun, executed >>
  /\ UNCHANGED << connection, parser, builder >>

\* socket 'timeout' of connection c, idle for the time set by setTimeout:
\* closeConnection destroys the socket
handleTimeout(c) ==
  /\ ~accepted[c].destroyed /\ ~accepted[c].closed
  /\ accepted[c].idle
  /\ accepted' = [accepted EXCEPT ![c].destroyed = TRUE]
  /\ unchangedServer
  /\ UNCHANGED << begun, executed >>
  /\ UNCHANGED << connection, parser, builder >>

\* ProxyServer.handleConnectionClose
handleConnectionClose(id) ==
  IF connections[id] # NoSocket
  THEN /\ connections' = [connections EXCEPT ![id] = NoSocket]
       /\ stats' = [stats EXCEPT !.activeConnections = @ - 1]
  ELSE UNCHANGED << connections, stats >>

\* socket 'close' of connection c: #handleClose runs handleClose() of the
\* protocol handler (cleanup, terminated) and emits 'close' with the id
socketClose(c) ==
  /\ ~accepted[c].closed
  /\ accepted' = [accepted EXCEPT ![c] = [cleanup(@) EXCEPT !.state = "terminated",
                                                           !.destroyed = TRUE,
                                                           !.closed = TRUE]]
  /\ handleConnectionClose(accepted[c].connectionId)
  /\ UNCHANGED << server, isRunning, stopping, begun, executed >>
  /\ UNCHANGED << connection, parser, builder >>

\* the 'close' event that follows socket.destroy() or socket.end()
closedAfterDestroy(c) ==
  /\ accepted[c].destroyed \/ accepted[c].ended
  /\ socketClose(c)

\* the peer goes away
closedByPeer(c) ==
  /\ Open(c)
  /\ socketClose(c)

\* ProxyServer.closeAllConnections: forceClose destroys the socket of every
\* entry, the map is cleared and the counter is set to 0
closeAllConnections ==
  /\ accepted' = [c \in Sockets |->
                    IF \E id \in ConnectionIds : connections[id] = c
                    THEN [accepted[c] EXCEPT !.destroyed = TRUE]
                    ELSE accepted[c]]
  /\ connections' = [id \in ConnectionIds |-> NoSocket]
  /\ stats' = [stats EXCEPT !.activeConnections = 0]

\* ProxyServer.stop: resolved at once unless the server is running; else the
\* connections are closed, server.close is called and the promise is pending
stop ==
  /\ Len(stopping) < MaxStops
  /\ IF server = "null" \/ ~isRunning
     THEN /\ stopping' = Append(stopping, "resolved")
          /\ UNCHANGED << server, isRunning, connections, stats, accepted >>
     ELSE /\ closeAllConnections
          /\ server' = "closing"
          /\ stopping' = Append(stopping, "pending")
          /\ UNCHANGED isRunning
  /\ UNCHANGED << begun, executed >>
  /\ UNCHANGED << connection, parser, builder >>

\* the 'close' event of the server, emitted once it has stopped listening and
\* every socket it accepted is closed: the callbacks given to server.close run
serverClose ==
  /\ server = "closing"
  /\ \A c \in Sockets : accepted[c].closed
  /\ server' = "closed"
  /\ isRunning' = FALSE
  /\ stopping' = [i \in DOMAIN stopping |-> "resolved"]
  /\ UNCHANGED << connections, stats, accepted, begun, executed >>
  /\ UNCHANGED << connection, parser, builder >>

ServerNext ==
  \/ startServer
  \/ listening
  \/ \E id \in ConnectionIds : handleNewConnection(id)
  \/ stop
  \/ serverClose
  \/ \E c \in Sockets :
        \/ handshake(c)
        \/ setParameter(c)
        \/ beginTransaction(c)
        \/ executeStatement(c)
        \/ commitTransaction(c)
        \/ terminate(c)
        \/ handleConnectionError(c)
        \/ quiet(c)
        \/ handleTimeout(c)
        \/ closedAfterDestroy(c)
        \/ closedByPeer(c)

ServerSpec == Init /\ [][ServerNext]_vars

\* a socket that was destroyed or ended is closed in the end, time passes
\* for a socket nothing is received from and it times out if it stays idle,
\* and the server emits 'close' once nothing keeps it open
ServerLive ==
  /\ ServerSpec
  /\ \A c \in 1..MaxSockets : WF_vars(c \in Sockets /\ closedAfterDestroy(c))
  /\ \A c \in 1..MaxSockets : WF_vars(c \in Sockets /\ quiet(c))
  /\ \A c \in 1..MaxSockets : WF_vars(c \in Sockets /\ handleTimeout(c))
  /\ WF_vars(serverClose)

\* ============================================================ frame parser
\* handleData up to its for loop: the bytes of a data chunk are appended to
\* this.buffer and MessageParser.parseBuffer cuts the buffer into frames and
\* parses them.  Buffers are sequences of bytes; an offset counts from 0 as
\* in the source.

\* MESSAGE_TYPES of utils/constants.js: the type bytes of the client's messages
MESSAGE_TYPES ==
  [QUERY |-> 81, PARSE |-> 80, BIND |-> 66, EXECUTE |-> 69, DESCRIBE |-> 68,
   CLOSE |-> 67, SYNC |-> 83, TERMINATE |-> 88, PASSWORD |-> 112]

NULL_TERMINATOR == 0

\* 0x04d2162f, the code of an SSL request
SSL_REQUEST_CODE == 80877103

\* the value a startup frame's code has above its low 16 bits: (code >> 16) === 3
PROTOCOL_MAJOR == 3

\* message: null in the object extractMessage returns
null == << -1 >>

\* the four bytes of the 32-bit integer n, most significant first
Int32BE(n) ==
  LET m == IF n < 0 THEN n + 2147483647 + 1 ELSE n
      top == (m \div 16777216) + (IF n < 0 THEN 128 ELSE 0)
  IN  << top, (m \div 65536) % 256, (m \div 256) % 256, m % 256 >>

\* Buffer.readInt32BE(offset): the signed value of four bytes
readInt32BE(b, offset) ==
  (IF b[offset + 1] >= 128 THEN b[offset + 1] - 256 ELSE b[offset + 1]) * 16777216
  + b[offset + 2] * 65536 + b[offset + 3] * 256 + b[offset + 4]

\* Buffer.subarray(start, end): a negative index counts from the end, both
\* indices are clamped to the buffer, and an end before the start gives the
\* empty buffer
subarray(b, start, end) ==
  LET clamp(i) == IF i < 0 THEN (IF Len(b) + i < 0 THEN 0 ELSE Len(b) + i)
                  ELSE IF i > Len(b) THEN Len(b) ELSE i
  IN  IF clamp(end) <= clamp(start) THEN << >>
      ELSE SubSeq(b, clamp(start) + 1, clamp(end))

\* the offset of the first NULL_TERMINATOR of b at or after offset pos, or -1
\* when BufferReader.readCString finds none and throws
readCString(b, pos) ==
  LET ends == {e \in pos..(Len(b) - 1) : b[e + 1] = NULL_TERMINATOR}
  IN  IF ends = {} THEN -1 ELSE CHOOSE e \in ends : \A f \in ends : e <= f

\* MessageParser.isCompleteMessage
isCompleteMessage(b) ==
  IF Len(b) < 4 THEN FALSE
  ELSE IF /\ Len(b) >= 8
          /\ readInt32BE(b, 0) = 8
          /\ readInt32BE(b, 4) = SSL_REQUEST_CODE THEN TRUE
  ELSE IF /\ Len(b) >= 8
          /\ readInt32BE(b, 0) <= Len(b)
          /\ readInt32BE(b, 4) \div 65536 = PROTOCOL_MAJOR THEN Len(b) >= readInt32BE(b, 0)
  ELSE IF Len(b) < 5 THEN FALSE
  ELSE Len(b) >= 1 + readInt32BE(b, 1)

\* MessageParser.extractMessage: the object it returns
extractMessage(b) ==
  IF ~isCompleteMessage(b)
  THEN [message |-> null, remaining |-> b, isStartup |-> FALSE, isSSL |-> FALSE]
  ELSE IF /\ Len(b) >= 8
          /\ readInt32BE(b, 0) = 8
          /\ readInt32BE(b, 4) = SSL_REQUEST_CODE
  THEN [message |-> subarray(b, 0, 8), remaining |-> subarray(b, 8, Len(b)),
        isStartup |-> FALSE, isSSL |-> TRUE]
  ELSE IF /\ Len(b) >= 8
          /\ readInt32BE(b, 0) > 8
          /\ readInt32BE(b, 4) \div 65536 = PROTOCOL_MAJOR
  THEN [message |-> subarray(b, 0, readInt32BE(b, 0)),
        remaining |-> subarray(b, readInt32BE(b, 0), Len(b)),
        isStartup |-> TRUE, isSSL |-> FALSE]
  ELSE IF Len(b) >= 5
  THEN LET totalLength == 1 + readInt32BE(b, 1)
       IN  [message |-> subarray(b, 0, totalLength),
            remaining |-> subarray(b, totalLength, Len(b)),
            isStartup |-> FALSE, isSSL |-> FALSE]
  ELSE [message |-> null, remaining |-> b, isStartup |-> FALSE, isSSL |-> FALSE]

\* the while loop of parseStartupMessage from offset pos: TRUE when it ends,
\* FALSE when a readCString throws
RECURSIVE StartupParameters(_, _)
StartupParameters(b, pos) ==
  IF Len(b) - pos <= 1 THEN TRUE
  ELSE LET name == readCString(b, pos) IN
       IF name = -1 THEN FALSE
       ELSE IF name = pos THEN TRUE
       ELSE LET value == readCString(b, name + 1) IN
            IF value = -1 THEN FALSE ELSE StartupParameters(b, value + 1)

\* MessageParser.parseStartupMessage: the type of the message it returns, or
\* "error" when it throws
parseStartupMessage(b) ==
  IF Len(b) >= 8 /\ StartupParameters(b, 8) THEN "startup" ELSE "error"

\* MessageParser.parseMessage: the type of the message it returns, or "error"
\* when it throws.  The frames of Frames carry the type bytes Q and X; the
\* handlers of Parse and Bind frames are not modelled.
parseMessage(b) ==
  IF Len(b) < 5 THEN "error"
  ELSE LET messageType == b[1]
           length == readInt32BE(b, 1)
           messageData == SubSeq(b, 6, 1 + length)
       IN  IF length < 4 \/ length > Len(b) - 1 THEN "error"
           ELSE CASE messageType = MESSAGE_TYPES.QUERY ->
                       IF readCString(messageData, 0) = -1 THEN "error" ELSE "query"
                  [] messageType = MESSAGE_TYPES.PASSWORD ->
                       IF readCString(messageData, 0) = -1 THEN "error" ELSE "password"
                  [] messageType \in {MESSAGE_TYPES.DESCRIBE, MESSAGE_TYPES.CLOSE} ->
                       IF Len(messageData) < 1 \/ readCString(messageData, 1) = -1
                       THEN "error"
                       ELSE IF messageType = MESSAGE_TYPES.CLOSE THEN "close"
                       ELSE "describe"
                  [] messageType = MESSAGE_TYPES.EXECUTE ->
                       IF \/ readCString(messageData, 0) = -1
                          \/ readCString(messageData, 0) + 5 > Len(messageData)
                       THEN "error" ELSE "execute"
                  [] messageType = MESSAGE_TYPES.SYNC -> "sync"
                  [] messageType = MESSAGE_TYPES.TERMINATE -> "terminate"
                  [] messageType \notin {MESSAGE_TYPES[k] : k \in DOMAIN MESSAGE_TYPES} ->
                       "unknown"

\* the try block of parseBuffer on the object extractMessage returned
Parse(result) ==
  IF result.isSSL THEN "ssl_request"
  ELSE IF result.isStartup THEN parseStartupMessage(result.message)
  ELSE parseMessage(result.message)

\* ----------------------------------------------- the bytes a client sends
\* the lengths a typed frame declares: below 4 no frame can be that short
DeclaredLengths == -2..4

\* a typed frame of type byte ty declaring length with the payload data
Frame(ty, length, data) == << ty >> \o Int32BE(length) \o data

\* Terminate frames with every declared length, a Query frame ("1"), an SSL
\* request, a startup frame of protocol 3.0 that ends with the terminator of
\* an empty parameter list and one of eight bytes that has no parameter bytes
Frames ==
  {Frame(MESSAGE_TYPES.TERMINATE, l, << >>) : l \in DeclaredLengths}
  \cup {Frame(MESSAGE_TYPES.QUERY, 6, << 49, NULL_TERMINATOR >>),
        Int32BE(8) \o Int32BE(SSL_REQUEST_CODE),
        Int32BE(9) \o Int32BE(PROTOCOL_MAJOR * 65536) \o << NULL_TERMINATOR >>,
        Int32BE(8) \o Int32BE(PROTOCOL_MAJOR * 65536)}

RECURSIVE Concat(_)
Concat(fs) == IF fs = << >> THEN << >> ELSE Head(fs) \o Concat(Tail(fs))

\* the byte streams of at most MaxFrames frames
Streams == UNION {{Concat(fs) : fs \in [1..n -> Frames]} : n \in 1..MaxFrames}

\* the frames of Frames that are well formed: every frame but the typed ones
\* that declare a length below 4
WellFormedFrames ==
  Frames \ {Frame(MESSAGE_TYPES.TERMINATE, l, << >>) : l \in {d \in DeclaredLengths : d < 4}}

\* the concatenations of at most MaxFrames well-formed frames
WellFormedStreams ==
  UNION {{Concat(fs) : fs \in [1..n -> WellFormedFrames]} : n \in 0..MaxFrames}

\* MessageParser.parseBuffer as a function of the buffer: the messages it
\* returns, the frames whose parse error it logs and drops, and the bytes it
\* leaves.  The recursion is the while loop; when an iteration does not
\* shorten the buffer the loop does not end, and the recursion stops there.
RECURSIVE parseBuffer(_)
parseBuffer(b) ==
  LET result == extractMessage(b) IN
  IF Len(b) = 0 \/ result.message = null \/ Len(result.remaining) >= Len(b)
  THEN [messages |-> << >>, dropped |-> {}, remaining |-> b]
  ELSE LET after == parseBuffer(result.remaining) IN
       IF Parse(result) = "error"
       THEN [after EXCEPT !.dropped = @ \cup {result.message}]
       ELSE [after EXCEPT !.messages = << Parse(result) >> \o @]

ParserInit ==
  /\ Constructed
  /\ AtRest
  /\ feed \in Streams
  /\ NotStarted
  /\ NoResponse

\* socket 'data': handleData appends the chunk, any non-empty prefix of what
\* the client has still to send, to this.buffer and calls parseBuffer
ReceiveBytes ==
  /\ ~parsing
  /\ \E k \in 1..Len(feed) :
       /\ buffer' = buffer \o SubSeq(feed, 1, k)
       /\ feed' = SubSeq(feed, k + 1, Len(feed))
  /\ remaining' = buffer'
  /\ messages' = << >>
  /\ parsing' = TRUE
  /\ UNCHANGED << parsed, discarded, connection, manager, builder >>

\* one pass of the while loop of parseBuffer: the frame extractMessage
\* returns is parsed; a parse error is caught and logged, and nothing else
\* is done about it; remaining becomes what extractMessage left
ParseIteration ==
  /\ parsing
  /\ Len(remaining) > 0
  /\ LET result == extractMessage(remaining) IN
       /\ result.message # null
       /\ IF Parse(result) = "error"
          THEN discarded' = discarded \cup {result.message} /\ UNCHANGED messages
          ELSE messages' = Append(messages, Parse(result)) /\ UNCHANGED discarded
       /\ remaining' = result.remaining
  /\ UNCHANGED << feed, buffer, parsing, parsed, connection, manager, builder >>

\* the while loop ends: parseBuffer returns { messages, remaining }, and
\* handleData keeps remaining as this.buffer and goes through the messages
ParseReturn ==
  /\ parsing
  /\ Len(remaining) = 0 \/ extractMessage(remaining).message = null
  /\ buffer' = remaining
  /\ parsed' = parsed \o messages
  /\ remaining' = << >>
  /\ messages' = << >>
  /\ parsing' = FALSE
  /\ UNCHANGED << feed, discarded, connection, manager, builder >>

ParserNext ==
  \/ ReceiveBytes
  \/ ParseIteration
  \/ ParseReturn

ParserSpec == ParserInit /\ [][ParserNext]_vars

\* ============================================== the replies to a query
\* DataAPIClient.formatResponse turns the response of the backend into the
\* result MessageBuilder.buildQueryResponse builds the reply from.  Strings are
\* sequences of bytes, so that the length fields can be compared with what
\* is written; every column has the type text.

MaxColumns == 2       \* columns of a backend response
MaxRecords == 1       \* records of a backend response

\* MESSAGE_TYPES of utils/constants.js: the type bytes of the replies
BACKEND_MESSAGE_TYPES ==
  [ROW_DESCRIPTION |-> 84, DATA_ROW |-> 68, COMMAND_COMPLETE |-> 67,
   ERROR_RESPONSE |-> 69, READY_FOR_QUERY |-> 90]

\* BufferWriter.writeInt16: the two bytes of n, most significant first
Int16BE(n) ==
  LET m == IF n < 0 THEN n + 65536 ELSE n
  IN  << m \div 256, m % 256 >>

\* BufferWriter.writeCString: the bytes and the terminator
writeCString(str) == str \o << NULL_TERMINATOR >>

RECURSIVE Sum(_)
Sum(ns) == IF ns = << >> THEN 0 ELSE Head(ns) + Sum(Tail(ns))

\* String(n) for n >= 0
RECURSIVE Decimal(_)
Decimal(n) == IF n < 10 THEN << 48 + n >> ELSE Decimal(n \div 10) \o << 48 + (n % 10) >>

\* column.name || `column_${index}`: an empty name is falsy
columnName(column, index) ==
  IF column.name # << >> THEN column.name
  ELSE << 99, 111, 108, 117, 109, 110, 95 >> \o Decimal(index)

\* formatResponse, the callback of response.records.map: the row object of a
\* record, filled field by field under the name of the column with the
\* field's index; an assignment to a name the row has already replaces the
\* value.  formatFieldValue gives null for a null field and the string of a
\* string field.
formatRecord(record, columnMetadata) ==
  LET key(i) == columnName(columnMetadata[i], i - 1)
  IN  [k \in {key(i) : i \in DOMAIN record} |->
         record[CHOOSE i \in DOMAIN record :
                  key(i) = k /\ \A j \in DOMAIN record : key(j) = k => j <= i]]

\* buildRowDescription: the length is computed with column.name || 'column',
\* the name written is column.name || `column_${index}`
RowDescription(columnMetadata) ==
  LET counted(i) == IF columnMetadata[i].name # << >> THEN columnMetadata[i].name
                    ELSE << 99, 111, 108, 117, 109, 110 >>
      messageLength ==
        4 + 2 + Sum([i \in DOMAIN columnMetadata |->
                       Len(counted(i)) + 1 + 4 + 2 + 4 + 2 + 4 + 2])
      field(i) == writeCString(columnName(columnMetadata[i], i - 1))
                  \o Int32BE(0) \o Int16BE(i) \o Int32BE(25) \o Int16BE(-1)
                  \o Int32BE(-1) \o Int16BE(0)
  IN  << BACKEND_MESSAGE_TYPES.ROW_DESCRIPTION >> \o Int32BE(messageLength)
      \o Int16BE(Len(columnMetadata))
      \o Concat([i \in DOMAIN columnMetadata |-> field(i)])

\* buildDataRow, const values: the value the record has under the name of
\* each column, null when it has none
rowValues(record, columnMetadata) ==
  [i \in DOMAIN columnMetadata |->
     LET k == columnName(columnMetadata[i], i - 1)
     IN  IF k \in DOMAIN record THEN record[k] ELSE null]

\* buildDataRow from messageLength on: the message of the values
DataRow(values) ==
  LET messageLength ==
        4 + 2 + Sum([i \in DOMAIN values |->
                       IF values[i] = null THEN 4 ELSE 4 + Len(values[i])])
  IN  << BACKEND_MESSAGE_TYPES.DATA_ROW >> \o Int32BE(messageLength)
      \o Int16BE(Len(values))
      \o Concat([i \in DOMAIN values |->
                   IF values[i] = null THEN Int32BE(-1)
                   ELSE Int32BE(Len(values[i])) \o values[i]])

\* buildCommandComplete for a tag that is a string
CommandComplete(commandTag) ==
  << BACKEND_MESSAGE_TYPES.COMMAND_COMPLETE >> \o Int32BE(4 + Len(commandTag) + 1)
  \o writeCString(commandTag)

\* #getCStringLength
getCStringLength(str) == 1 + Len(str) + 1

\* buildErrorResponse: the fields S, C and M, the fields D and H when they
\* are not empty, and the terminator
ErrorResponse(error) ==
  LET messageLength ==
        4 + getCStringLength(error.severity) + getCStringLength(error.code)
        + getCStringLength(error.message)
        + (IF error.detail # << >> THEN getCStringLength(error.detail) ELSE 0)
        + (IF error.hint # << >> THEN getCStringLength(error.hint) ELSE 0)
        + 1
  IN  << BACKEND_MESSAGE_TYPES.ERROR_RESPONSE >> \o Int32BE(messageLength)
      \o << 83 >> \o writeCString(error.severity)
      \o << 67 >> \o writeCString(error.code)
      \o << 77 >> \o writeCString(error.message)
      \o (IF error.detail # << >> THEN << 68 >> \o writeCString(error.detail) ELSE << >>)
      \o (IF error.hint # << >> THEN << 72 >> \o writeCString(error.hint) ELSE << >>)
      \o << 0 >>

\* buildReadyForQuery() with the default status 'I'
ReadyForQuery == << BACKEND_MESSAGE_TYPES.READY_FOR_QUERY >> \o Int32BE(5) \o << 73 >>

\* buildQueryResponse for a result of formatResponse, as the list of the
\* messages it concatenates: with records RowDescription, one DataRow per
\* record and CommandComplete('SELECT'), without records CommandComplete('OK')
\* (numberOfRecordsUpdated is 0); ReadyForQuery ends both
QueryResponse(result) ==
  (IF Len(result.records) > 0
   THEN << RowDescription(result.columnMetadata) >>
        \o [j \in DOMAIN result.records |->
              DataRow(rowValues(result.records[j], result.columnMetadata))]
        \o << CommandComplete(<< 83, 69, 76, 69, 67, 84 >>) >>
   ELSE << CommandComplete(<< 79, 75 >>) >>)
  \o << ReadyForQuery >>

\* the names a column of a response has: none, "a" or "b"
ColumnNames == {<< >>, << 97 >>, << 98 >>}

\* the values of a field: null, "1" or "2"
FieldValues == {null, << 49 >>, << 50 >>}

\* the responses of the backend to an execute call: up to MaxColumns columns
\* and up to MaxRecords records with one field for every column
Responses ==
  UNION {[columnMetadata : [1..c -> [name : ColumnNames]],
          records : UNION {[1..r -> [1..c -> FieldValues]] : r \in 0..MaxRecords}]
         : c \in 1..MaxColumns}

\* the errors sendError is given: severity ERROR or FATAL, a code, a message,
\* and a detail and a hint that may be empty
Errors ==
  [severity : {<< 69, 82, 82, 79, 82 >>, << 70, 65, 84, 65, 76 >>},
   code : {<< 88, 88, 48, 48, 48 >>, << 48, 56, 48, 48, 54 >>},
   message : {<< >>, << 120 >>},
   detail : {<< >>, << 100 >>},
   hint : {<< >>, << 104 >>}]

BuilderInit ==
  /\ Constructed
  /\ AtRest
  /\ feed = << >>
  /\ NotStarted
  /\ response \in Responses
  /\ queryResult = << >>
  /\ reply = << >>

\* executeStatement returns this.formatResponse(response)
FormatResponse ==
  /\ queryResult = << >> /\ reply = << >>
  /\ queryResult' =
       << [columnMetadata |-> response.columnMetadata,
           records |-> [j \in DOMAIN response.records |->
                          formatRecord(response.records[j], response.columnMetadata)]] >>
  /\ UNCHANGED << response, reply, connection, parser, manager >>

\* handleSimpleQuery writes buildQueryResponse(result)
BuildQueryResponse ==
  /\ queryResult # << >> /\ reply = << >>
  /\ reply' = QueryResponse(queryResult[1])
  /\ UNCHANGED << response, queryResult, connection, parser, manager >>

\* executeStatement throws: the catch of handleSimpleQuery sends the error
\* and ReadyForQuery
BuildErrorResponse ==
  /\ queryResult = << >> /\ reply = << >>
  /\ \E error \in Errors : reply' = << ErrorResponse(error), ReadyForQuery >>
  /\ UNCHANGED << response, queryResult, connection, parser, manager >>

BuilderNext ==
  \/ FormatResponse
  \/ BuildQueryResponse
  \/ BuildErrorResponse

BuilderSpec == BuilderInit /\ [][BuilderNext]_vars

\* ================================================================== claims

\* C1: message processing of a connection is strictly serial and FIFO: the
\* handling of a message never starts before the handling of every message
\* received earlier has finished, and the replies are written in the order
\* in which the messages were received.
C1_SerialFifo ==
  /\ \A i, j \in DOMAIN log : (i < j /\ log[j].at # "-") => log[i].fin
  /\ \A p, q \in DOMAIN out : p < q => out[p].m <= out[q].m

\* C2: whenever no message is being processed, the session's in-transaction
\* flag is true exactly if the backend client holds a transaction identifier.
C2_FlagMatchesIdentifier ==
  Quiescent => (inTransaction <=> transactionId # NoTx)

\* C3: commitTransaction and rollbackTransaction leave no transaction
\* identifier behind when they return to their caller, whether the backend
\* call succeeded or failed.
C3_EndClearsIdentifier ==
  [][\A t \in TaskIds :
       (/\ tasks[t].pc \in {"await_commit", "await_rollback", "await_cleanup"}
        /\ tasks'[t].pc # tasks[t].pc)
       => transactionId' = NoTx]_vars

\* C4: the ReadyForQuery that ends the reply to a simple query carries 'T'
\* when the session is in a transaction after that query and 'I' otherwise.
C4_ReadyStatusReflectsTransaction ==
  [][\A i \in (Len(out) + 1)..Len(out') :
       (out'[i].t = "ReadyForQuery" /\ log[out'[i].m].type = "query")
       => out'[i].a = IF inTransaction' THEN TRANSACTION_STATUS.TRANSACTION
                      ELSE TRANSACTION_STATUS.IDLE]_vars

\* C5: the system query SELECT version() is answered locally: no backend
\* call is ever sent for it.
C5_SystemQueryIsLocal ==
  \A c \in DOMAIN calls :
    calls[c].op = "execute" => log[calls[c].m].sql # "SELECT version()"

\* C6: a Close message taken up in state ready is answered with exactly one
\* CloseComplete; the state stays ready, and the session, the transaction
\* identifier and the backend are left alone.
C6_CloseRepliesCloseComplete ==
  [][\A n \in DOMAIN log :
       (log[n].type = "close" /\ log[n].at = "-" /\ log'[n].at = "ready")
       => /\ state' = "ready"
          /\ out' = Append(out, [m |-> n, t |-> "CloseComplete", a |-> ""])
          /\ calls' = calls
          /\ UNCHANGED << session, transactionId >>]_vars

\* C7: Execute is answered without a command tag and without ReadyForQuery;
\* in the extended protocol only Sync is answered with ReadyForQuery.
C7_ExecuteWritesNoReady ==
  \A i \in DOMAIN out :
    log[out[i].m].type = "execute" => out[i].t \notin {"ReadyForQuery", "CommandComplete"}

\* C8: while the backend client holds a transaction identifier no begin call
\* is sent to the backend and the identifier is never replaced by another.
C8_NoSecondBegin ==
  [][transactionId # NoTx =>
       /\ Len(calls') > Len(calls) => calls'[Len(calls')].op # "begin"
       /\ transactionId' \in {transactionId, NoTx}]_vars

\* C9: once a frame other than an SSL request or a startup frame was handled
\* in state startup, or a frame other than a password frame in state
\* authentication, the state is terminated and the socket is destroyed.
C9_EarlyProtocolErrorTerminates ==
  \A n \in DOMAIN log :
    (/\ log[n].fin
     /\ \/ log[n].at = "startup" /\ log[n].type \notin {"ssl_request", "startup"}
        \/ log[n].at = "authentication" /\ log[n].type # "password")
    => (state = "terminated" /\ destroyed)

C11_TerminateCleansUp ==
  [][\A n \in DOMAIN log :
       log[n].type = "terminate" =>
         /\ (log[n].at = "-" /\ log'[n].at = "ready") =>
              IF transactionId # NoTx
              THEN calls' = Append(calls, [m |-> n, op |-> "rollback", tx |-> transactionId])
              ELSE calls' = calls /\ state' = "terminated" /\ ended'
         /\ (log'[n].at = "ready" /\ ~log[n].fin /\ log'[n].fin) =>
              (state' = "terminated" /\ ended')]_vars

\* a Terminate was handled with a transaction open and its rollback failed
C11_Witness ==
  \E n \in DOMAIN log :
    /\ log[n].type = "terminate" /\ log[n].at = "ready" /\ log[n].fin
    /\ state = "terminated" /\ ended
    /\ transactionId # NoTx
    /\ \E c \in DOMAIN calls : calls[c].m = n /\ calls[c].op = "rollback"

\* C12: after BEGIN, one forwarded query and COMMIT were sent in that order
\* on a ready connection and handled with no fault of the environment, the
\* backend has received exactly a begin call, an execute call carrying the
\* identifier the begin returned, and a commit call for that identifier.
C12_BeginQueryCommitCalls ==
  (/\ events = 0 /\ Quiescent
   /\ Len(log) = 5 /\ \A i \in DOMAIN log : log[i].fin
   /\ log[1].type = "startup" /\ log[2].type = "password"
   /\ \A i \in 3..5 : log[i].type = "query"
   /\ cleanSql(log[3].sql) = "BEGIN" /\ log[4].sql = "SELECT 1"
   /\ cleanSql(log[5].sql) = "COMMIT")
  => /\ [i \in DOMAIN calls |-> calls[i].op] = << "begin", "execute", "commit" >>
     /\ calls[1].tx = NoTx
     /\ calls[2].tx = nextTx - 1 /\ calls[2].tx # NoTx
     /\ calls[3].tx = calls[2].tx
\* C13: a startup frame taken up in state startup captures its parameters
\* and writes AuthenticationCleartextPassword (unless the socket is destroyed
\* or the write fails); when its handling ends after that write, that one
\* message is all that was written for it and the state becomes
\* authentication.
C13_StartupReply ==
  [][\A n \in DOMAIN log :
       (log'[n].type = "startup" /\ log'[n].at = "startup") =>
         /\ log[n].at = "-" =>
              /\ startupParameters' = "captured"
              /\ \/ out' = Append(out, [m |-> n, t |-> "AuthenticationCleartextPassword",
                                        a |-> ""])
                 \/ out' = out /\ (destroyed \/ writeFailed')
         /\ (/\ ~log[n].fin /\ log'[n].fin
             /\ \E i \in DOMAIN out : out[i].m = n
                                       /\ out[i].t = "AuthenticationCleartextPassword")
            => /\ state' = "authentication"
               /\ Replies(out', n) = << << "AuthenticationCleartextPassword", "" >> >>]_vars

\* a startup frame was handled and the connection awaits the password
C13_Witness ==
  \E n \in DOMAIN log :
    /\ log[n].type = "startup" /\ log[n].at = "startup" /\ log[n].fin
    /\ state = "authentication" /\ startupParameters = "captured"
    /\ Replies(out, n) = << << "AuthenticationCleartextPassword", "" >> >>
\* the replies of a successful authentication, in order
AuthenticationReplies ==
  << << "AuthenticationOk", "" >>, << "BackendKeyData", "" >> >>
  \o [i \in 1..Len(DEFAULT_PARAMETERS) |-> << "ParameterStatus", DEFAULT_PARAMETERS[i] >>]
  \o << << "ReadyForQuery", TRANSACTION_STATUS.IDLE >> >>

\* C14: when the handling of a password frame taken up in state
\* authentication ends after its ReadyForQuery was written, what was written
\* for it is AuthenticationOk, BackendKeyData, one ParameterStatus per default
\* parameter and ReadyForQuery('I'), in this order, and the state becomes
\* ready; the state becomes ready in no other step.
C14_AuthenticationReplies ==
  [][/\ \A n \in DOMAIN log :
          (/\ log'[n].type = "password" /\ log'[n].at = "authentication"
           /\ ~log[n].fin /\ log'[n].fin
           /\ \E i \in DOMAIN out : out[i].m = n /\ out[i].t = "ReadyForQuery")
          => /\ Replies(out', n) = AuthenticationReplies
             /\ out' = out
             /\ state' = "ready" /\ authenticated'
     /\ (state # "ready" /\ state' = "ready") =>
          \E n \in DOMAIN log :
            /\ log'[n].type = "password" /\ log'[n].at = "authentication"
            /\ ~log[n].fin /\ log'[n].fin
            /\ Replies(out, n) = AuthenticationReplies]_vars

\* a password frame was handled and the connection is ready
C14_Witness ==
  \E n \in DOMAIN log :
    /\ log[n].type = "password" /\ log[n].at = "authentication" /\ log[n].fin
    /\ state = "ready" /\ authenticated
    /\ Replies(out, n) = AuthenticationReplies
\* C15: an SSL request is answered, in whatever state it is taken up, with
\* the single byte 'N' (unless the socket is destroyed or the write fails)
\* and with nothing else, and its handling leaves the protocol state, the
\* session, the transaction identifier and the backend alone.
C15_SslRequestRefused ==
  [][\A n \in DOMAIN log :
       log'[n].type = "ssl_request" =>
         /\ (log[n].at = "-" /\ log'[n].at # "-") =>
              /\ UNCHANGED << proto, session, transactionId, calls >>
              /\ \/ out' = Append(out, [m |-> n, t |-> "N", a |-> ""])
                 \/ out' = out /\ (destroyed \/ writeFailed')
         /\ (/\ ~log[n].fin /\ log'[n].fin
             /\ \E i \in DOMAIN out : out[i].m = n /\ out[i].t = "N")
            => /\ UNCHANGED << proto, session, transactionId, calls, out >>
               /\ Replies(out', n) = << << "N", "" >> >>]_vars

\* an SSL request was refused in state startup, which is still the state
C15_Witness ==
  \E n \in DOMAIN log :
    /\ log[n].type = "ssl_request" /\ log[n].at = "startup" /\ log[n].fin
    /\ state = "startup" /\ ~authenticated
    /\ Replies(out, n) = << << "N", "" >> >>
\* C16: when the execute call of a forwarded query fails, the step that
\* resumes the handler writes one ErrorResponse and the next step of the
\* handler writes one ReadyForQuery (each unless the socket is destroyed or
\* the write fails), neither step changes the protocol state or the session,
\* and the handler is then done with the query: the client has received
\* exactly ErrorResponse, ReadyForQuery for it.  A forwarded query handled
\* after it in state ready whose call succeeds gets the reply of its result.
C16_BackendFailureReported ==
  [][/\ \A t \in DataTasks :
          LET n == Cur(t)
              wrote(tok) == \/ out' = Append(out, [m |-> n, t |-> tok.t, a |-> tok.a])
                            \/ out' = out /\ (destroyed \/ writeFailed')
          IN  /\ (/\ tasks[t].pc = "await_execute"
                  /\ "query_ready" \in {tasks'[t].pc, tasks'[t].k})
                 => /\ \E name \in ErrorNames : wrote(buildErrorResponse(formatError(name)))
                    /\ UNCHANGED << proto, session, transactionId, calls >>
              /\ (/\ tasks[t].pc = "query_ready" \/ tasks[t].k = "query_ready"
                  /\ tasks'[t] # tasks[t]
                  /\ tasks[t].pc # "await_execute")
                 => /\ wrote(buildReadyForQuery(TRANSACTION_STATUS.IDLE))
                    /\ UNCHANGED << proto, session, transactionId, calls >>
                    /\ \/ tasks'[t].pc = "await_write" /\ tasks'[t].k = "next"
                       \/ out' = out
     /\ \A n \in DOMAIN log :
          (/\ log[n].type = "query" /\ IsForwarded(cleanSql(log[n].sql))
           /\ log[n].at = "ready"
           /\ ~log[n].fin /\ log'[n].fin
           /\ ~destroyed /\ ~writeFailed'
           /\ Replies(out', n) # << >>)
          => IF Replies(out', n)[1][1] = "ErrorResponse"
             THEN /\ Len(Replies(out', n)) = 2
                  /\ Replies(out', n)[2] = << "ReadyForQuery", "I" >>
             ELSE LET r == buildQueryResponse(formatResponse(log[n].sql))
                  IN  Replies(out', n) = [i \in DOMAIN r |-> << r[i].t, r[i].a >>]]_vars

\* a forwarded query whose call failed was answered with ErrorResponse and
\* ReadyForQuery, the state is ready, and the forwarded query after it was
\* answered with its rows
C16_Witness ==
  \E n \in DOMAIN log :
    /\ n + 1 \in DOMAIN log
    /\ log[n].type = "query" /\ log[n].sql = "SELECT 1" /\ log[n].fin
    /\ log[n].at = "ready"
    /\ Len(Replies(out, n)) = 2
    /\ Replies(out, n)[1][1] = "ErrorResponse"
    /\ Replies(out, n)[2] = << "ReadyForQuery", "I" >>
    /\ \E i \in DOMAIN calls : calls[i].m = n /\ calls[i].op = "execute"
    /\ log[n + 1].type = "query" /\ log[n + 1].sql = "SELECT 1" /\ log[n + 1].fin
    /\ log[n + 1].at = "ready"
    /\ Replies(out, n + 1) = << << "RowDescription", "1" >>, << "DataRow", "1" >>,
                                << "CommandComplete", "SELECT" >>,
                                << "ReadyForQuery", "I" >> >>
    /\ state = "ready" /\ Quiescent
\* C19: a message taken up while the state is terminated is dropped silently:
\* the step that takes it up writes nothing to the client, issues no backend
\* call and leaves the state terminated, and nothing is ever written for it.
C19_TerminatedDropsInput ==
  [][\A n \in DOMAIN log :
       /\ (state = "terminated" /\ log[n].at = "-" /\ log'[n].at # "-")
          => out' = out /\ calls' = calls /\ state' = "terminated"
       /\ log[n].at = "terminated" => Replies(out', n) = << >>]_vars
\* C20: when a SHOW x is taken up in state ready and answered, and the
\* message before it was a SET of x that has been answered with
\* CommandComplete("SET") (no later message having been taken up), the reply
\* is one row whose single column holds the value of that SET, the empty
\* value included; when no SET has been taken up the column holds "unknown".
C20_ShowReturnsSetValue ==
  [][\A n \in DOMAIN log :
       (/\ log[n].type = "query" /\ cleanSql(log[n].sql) = "SHOW x"
        /\ log[n].at = "-" /\ log'[n].at = "ready"
        /\ out' # out
        /\ \A m \in DOMAIN log : m > n => log[m].at = "-")
       => LET row(v) == << << "RowDescription", "1" >>, << "DataRow", v >>,
                           << "CommandComplete", "SELECT" >>,
                           << "ReadyForQuery", "I" >> >>
              answered(m) == /\ m \in DOMAIN log
                             /\ log[m].at = "ready" /\ log[m].fin
                             /\ Replies(out, m) = << << "CommandComplete", "SET" >>,
                                                     << "ReadyForQuery", "I" >> >>
          IN  /\ (answered(n - 1) /\ log[n - 1].sql = "SET x = 'a'")
                 => Replies(out', n) = row("a")
              /\ (answered(n - 1) /\ log[n - 1].sql = "SET x = ''")
                 => Replies(out', n) = row("")
              /\ (\A m \in DOMAIN log : IsSet(cleanSql(log[m].sql)) => log[m].at = "-")
                 => Replies(out', n) = row("unknown")]_vars
\* C17: when parseBuffer comes to a typed frame whose declared length is
\* less than 4, the frame is not added to the messages it returns, and the
\* framing error is reported: an ErrorResponse has been written to the client.
C17_ShortFrameReported ==
  [][(/\ parsing /\ parsing'
      /\ Len(remaining) >= 5
      /\ remaining[1] = MESSAGE_TYPES.TERMINATE
      /\ readInt32BE(remaining, 1) < 4)
     => /\ messages' = messages
        /\ \E i \in DOMAIN out' : out'[i].t = "ErrorResponse"]_vars

\* C18: for every buffer parseBuffer hands to extractMessage, either a frame
\* is returned with a remaining buffer strictly shorter than the buffer, or
\* no frame is returned and the remaining buffer is the buffer.
C18_ExtractionTotal ==
  parsing =>
    LET result == extractMessage(remaining)
    IN  \/ result.message # null /\ Len(result.remaining) < Len(remaining)
        \/ result.message = null /\ result.remaining = remaining
\* C21: a COMMIT or ROLLBACK taken up in state ready while no transaction
\* identifier is held sends no backend call, is answered with its
\* CommandComplete and ReadyForQuery (unless the socket is destroyed or the
\* write fails) and leaves the in-transaction flag false; taken up while an
\* identifier is held it sends the one matching call with that identifier,
\* no other call is ever sent for it, and when the call succeeds the flag
\* and the identifier are both cleared.
C21_EndOnlyWhenOpen ==
  [][/\ \A n \in DOMAIN log :
          LET sql == cleanSql(log[n].sql)
              op == IF IsCommit(sql) THEN "commit" ELSE "rollback"
              tag == IF IsCommit(sql) THEN "COMMIT" ELSE "ROLLBACK"
              sent(c) == Len(SelectSeq(c, LAMBDA x : x.m = n))
          IN  (log[n].type = "query" /\ (IsCommit(sql) \/ IsRollback(sql)))
              => /\ (log[n].at = "-" /\ log'[n].at = "ready")
                    => IF transactionId = NoTx
                       THEN /\ calls' = calls
                            /\ inTransaction' = FALSE
                            /\ \/ out' = out \o << [m |-> n, t |-> "CommandComplete", a |-> tag],
                                                    [m |-> n, t |-> "ReadyForQuery", a |-> "I"] >>
                               \/ out' = out /\ (destroyed \/ writeFailed')
                       ELSE /\ calls' = Append(calls, [m |-> n, op |-> op,
                                                       tx |-> transactionId])
                            /\ out' = out
                            /\ UNCHANGED << inTransaction, transactionId >>
                 /\ log[n].at # "-" => sent(calls') = sent(calls)
     /\ \A t \in DataTasks :
          (/\ tasks[t].pc \in {"await_commit", "await_rollback"}
           /\ tasks'[t] # tasks[t]
           /\ "query_ready" \notin {tasks'[t].pc, tasks'[t].k})
          => inTransaction' = FALSE /\ transactionId' = NoTx]_vars

\* a COMMIT taken up with an identifier held sent one commit call and was
\* answered, a ROLLBACK after it sent no call and was answered, and neither
\* flag nor identifier is set
C21_Witness ==
  \E n \in DOMAIN log :
    /\ n + 1 \in DOMAIN log
    /\ log[n].sql = "COMMIT;" /\ log[n].at = "ready" /\ log[n].fin
    /\ \E i \in DOMAIN calls :
         calls[i] = [m |-> n, op |-> "commit", tx |-> nextTx - 1] /\ nextTx - 1 # NoTx
    /\ Replies(out, n) = << << "CommandComplete", "COMMIT" >>, << "ReadyForQuery", "I" >> >>
    /\ log[n + 1].sql = "ROLLBACK" /\ log[n + 1].at = "ready" /\ log[n + 1].fin
    /\ \A i \in DOMAIN calls : calls[i].m # n + 1
    /\ Replies(out, n + 1) = << << "CommandComplete", "ROLLBACK" >>,
                                << "ReadyForQuery", "I" >> >>
    /\ ~inTransaction /\ transactionId = NoTx
\* C24: once the socket of a connection has been destroyed (force close,
\* timeout, error or close by the peer) no further bytes are written to it; in
\* particular the reply of a backend call that was in flight when the socket
\* was destroyed is never written.
C24_NoWriteAfterDestroy ==
  [][destroyed => out' = out]_vars

\* The first query after the handshake was forwarded to the backend, the socket
\* was destroyed while the call was in flight, the call returned successfully
\* and the handler finished without a single byte of reply.
C24_Witness ==
  /\ destroyed
  /\ ~writeFailed
  /\ events = 1
  /\ \E n \in DOMAIN log :
       /\ log[n].type = "query" /\ ~log[n].early /\ log[n].at = "ready" /\ log[n].fin
       /\ \A i \in 1..(n - 1) : log[i].early /\ log[i].fin
       /\ \E i \in DOMAIN calls : calls[i].m = n /\ calls[i].op = "execute"
       /\ \A i \in DOMAIN out : out[i].m # n

\* C27: when a Parse message with statement name n and text s is acknowledged
\* with ParseComplete, the prepared statements of the session map n to s, and
\* no backend call is made for the Parse message.
C27_ParseStoresStatement ==
  [][\A n \in DOMAIN log :
       (/\ log[n].type = "parse"
        /\ Len(out') = Len(out) + 1
        /\ out'[Len(out')] = [m |-> n, t |-> "ParseComplete", a |-> ""])
       => /\ \A name \in StatementNames : preparedStatements'[name] = log[n].sql
          /\ calls' = calls
          /\ \A i \in DOMAIN calls : calls[i].m # n]_vars

\* C28: when the buffer parseBuffer hands to extractMessage begins with a
\* length N >= 8 followed by a code C with (C >> 16) = 3, and holds the N
\* bytes, the frame returned is classified as a startup message and is the
\* first N bytes exactly; N = 8 is included.
C28_StartupFrameConsumed ==
  (/\ parsing
   /\ Len(remaining) >= 8
   /\ readInt32BE(remaining, 0) >= 8
   /\ readInt32BE(remaining, 0) <= Len(remaining)
   /\ readInt32BE(remaining, 4) \div 65536 = PROTOCOL_MAJOR)
  => LET N == readInt32BE(remaining, 0)
         result == extractMessage(remaining)
     IN  /\ result.isStartup
         /\ result.message = SubSeq(remaining, 1, N)
         /\ result.remaining = SubSeq(remaining, N + 1, Len(remaining))

\* C29: the reply written to a query whose result has n >= 1 records is
\* RowDescription, the n DataRow messages, CommandComplete with the tag
\* "SELECT n", which includes the row count, and ReadyForQuery.
C29_SelectTagCarriesCount ==
  \A n \in DOMAIN log :
    LET r == Replies(out, n)
        rows == Len(SelectSeq(r, LAMBDA x : x[1] = "DataRow"))
    IN  (log[n].type = "query" /\ rows >= 1)
        => /\ Len(r) = rows + 3
           /\ r[1][1] = "RowDescription"
           /\ \A i \in 2..(rows + 1) : r[i][1] = "DataRow"
           /\ r[rows + 2] = << "CommandComplete", "SELECT " \o ToString(rows) >>
           /\ r[rows + 3][1] = "ReadyForQuery"

\* C26: the ErrorResponse written for a backend call that failed carries the
\* SQLSTATE and the severity of the error name the backend reported:
\* BadRequest 42601 ERROR, Forbidden 42501 ERROR, ServiceUnavailable 08006
\* FATAL, StatementTimeout 57014 ERROR, ResourceNotFound 42P01 ERROR,
\* Validation 22023 ERROR, Throttling 53300 ERROR, any other name XX000 ERROR.
C26_ErrorNameMapped ==
  \A n \in DOMAIN log :
    LET name == log[n].error
        r == Replies(out, n)
        mapped == CASE name = "BadRequestException" -> "42601 ERROR"
                    [] name = "ForbiddenException" -> "42501 ERROR"
                    [] name = "ServiceUnavailableException" -> "08006 FATAL"
                    [] name = "StatementTimeoutException" -> "57014 ERROR"
                    [] name = "ResourceNotFoundException" -> "42P01 ERROR"
                    [] name = "ValidationException" -> "22023 ERROR"
                    [] name = "ThrottlingException" -> "53300 ERROR"
                    [] OTHER -> "XX000 ERROR"
    IN  (name # "" /\ r # << >>) => r[1] = << "ErrorResponse", mapped >>

\* C30: once the protocol state of a connection is terminated it is never
\* changed again, whatever handler resumes afterwards.
C30_TerminatedIsTerminal ==
  [][state = "terminated" => state' = "terminated"]_vars

\* C22: the active-connections counter of the server equals the number of
\* entries of its connection map in every reachable state, and is never
\* negative.
C22_CounterMatchesSet ==
  /\ stats.activeConnections
       = Cardinality({id \in ConnectionIds : connections[id] # NoSocket})
  /\ stats.activeConnections >= 0

\* C23: a call of stop() on a running server destroys the socket of every
\* connection of the map and closes the listener; cleanup has run for every
\* accepted connection when the promise is resolved; the promise returned by
\* any call of stop() is resolved in the end; a call of stop() on a server
\* that is not running is resolved at once and touches no connection.
C23_StopResolves ==
  /\ [][Len(stopping') = Len(stopping) + 1
        => IF server # "null" /\ isRunning
           THEN /\ \A id \in ConnectionIds :
                     connections[id] # NoSocket => accepted'[connections[id]].destroyed
                /\ server' = "closing"
           ELSE /\ stopping'[Len(stopping')] = "resolved"
                /\ UNCHANGED << accepted, connections, stats, server >>]_vars
  /\ [][\A i \in DOMAIN stopping :
          (stopping[i] = "pending" /\ stopping'[i] = "resolved")
          => \A c \in Sockets : accepted'[c].closed /\ accepted'[c].cleanups >= 1]_vars
  /\ \A i \in 1..MaxStops :
       (i \in DOMAIN stopping) ~> (i \in DOMAIN stopping /\ stopping[i] = "resolved")

\* C25: no step changes the protocol state, the session parameters, the
\* in-transaction flag or the transaction identifier of more than one
\* connection, and an execute call sent for a connection carries no
\* transaction identifier or one that this connection has begun.
C25_ConnectionsIsolated ==
  [][/\ \A c, d \in Sockets :
          LET Session(h) == << h.state, h.parameters, h.inTransaction, h.transactionId >>
          IN  (c # d /\ Session(accepted'[c]) # Session(accepted[c]))
              => Session(accepted'[d]) = Session(accepted[d])
     /\ executed' # executed
          => \/ executed'[2] = NoTx
             \/ begun[executed'[2]] = executed'[1]]_vars

\* two ready connections hold a transaction each, the second has sent an
\* execute call in its own transaction, and only the first has set a parameter
C25_Witness ==
  /\ Len(accepted) = 2
  /\ accepted[1].state = "ready" /\ accepted[2].state = "ready"
  /\ accepted[1].transactionId = 1 /\ accepted[2].transactionId = 2
  /\ accepted[1].parameters = "a" /\ accepted[2].parameters = Unset
  /\ executed = << 2, 2 >>

C32_SyncReportsTransactionStatus ==
  [][\A n \in DOMAIN log :
       (log'[n].type = "sync" /\ log'[n].at = "ready") =>
         /\ log[n].at = "-" =>
              /\ UNCHANGED << proto, session, transactionId, calls >>
              /\ \/ out' = Append(out, [m |-> n, t |-> "ReadyForQuery",
                                        a |-> IF inTransaction
                                              THEN TRANSACTION_STATUS.TRANSACTION
                                              ELSE TRANSACTION_STATUS.IDLE])
                 \/ out' = out /\ (destroyed \/ writeFailed')
         /\ (/\ ~log[n].fin /\ log'[n].fin
             /\ \E i \in DOMAIN out : out[i].m = n /\ out[i].t = "ReadyForQuery")
            => /\ UNCHANGED << proto, session, transactionId, calls, out >>
               /\ Len(Replies(out', n)) = 1]_vars

\* a Sync was answered with ReadyForQuery('T') inside a transaction, which
\* is still open
C32_Witness ==
  \E n \in DOMAIN log :
    /\ log[n].type = "sync" /\ log[n].at = "ready" /\ log[n].fin
    /\ Replies(out, n) = << << "ReadyForQuery", TRANSACTION_STATUS.TRANSACTION >> >>
    /\ state = "ready" /\ inTransaction /\ transactionId # NoTx

\* C33: for a stream of well-formed frames, however it is cut into chunks,
\* the messages extracted across the chunks with the leftover bytes kept in
\* the read buffer (and the frames dropped, and the bytes left at the end)
\* are those extracted when the stream arrives as one chunk, so that a
\* partial frame yields no message and is not dropped.  Between two chunks:
\* whatever prefix of the bytes to come arrives next, parsing it and then
\* the rest gives what parsing all of it at once gives.  During a call of
\* parseBuffer: the messages the loop has pushed and those it will push are
\* the ones parseBuffer returns for the buffer of the call.
C33_ChunkingIsInvisible ==
  /\ parsing =>
       LET rest == parseBuffer(remaining)
           call == parseBuffer(buffer)
       IN  /\ messages \o rest.messages = call.messages
           /\ rest.remaining = call.remaining
  /\ (~parsing /\ (buffer \o feed) \in WellFormedStreams) =>
       \A k \in 1..Len(feed) :
         LET now == parseBuffer(buffer \o SubSeq(feed, 1, k))
             rest == parseBuffer(now.remaining \o SubSeq(feed, k + 1, Len(feed)))
             whole == parseBuffer(buffer \o feed)
         IN  /\ now.messages \o rest.messages = whole.messages
             /\ now.dropped \cup rest.dropped = whole.dropped
             /\ rest.remaining = whole.remaining

\* C34: parseBuffer terminates on every buffer: every pass of its while
\* loop that does not leave the loop strictly shortens the remaining buffer,
\* also for a typed frame that declares length -1 or another length below 4.
C34_IterationShortens ==
  [][(parsing /\ parsing') => Len(remaining') < Len(remaining)]_vars

\* C35: the backend receives at most one commit or rollback call for every
\* transaction identifier, also when the cleanup of a Terminate message and
\* the cleanup of the socket 'close' event overlap.
C35_OneEndCallPerTransaction ==
  \A i, j \in DOMAIN calls :
    (/\ calls[i].op \in {"commit", "rollback"}
     /\ calls[j].op \in {"commit", "rollback"}
     /\ calls[i].tx = calls[j].tx)
    => i = j

\* C36: once the connection has ended (a Terminate message was handled or
\* the socket was closed) and every handler has returned, the backend client
\* holds no transaction identifier, and every transaction the backend began
\* for the connection has received a commit or rollback call.
C36_NoTransactionLeftOpen ==
  (Quiescent /\ (closed \/ state = "terminated")) =>
    /\ transactionId = NoTx
    /\ \A tx \in 1..(nextTx - 1) :
         \E i \in DOMAIN calls : calls[i].op \in {"commit", "rollback"} /\ calls[i].tx = tx

\* C37: the backend is called only for a connection that has handled a
\* password frame in state authentication and has become ready.  A query (or any frame other than the startup frame, the
\* password frame and the SSL request) taken up in state startup or
\* authentication issues no backend call and is answered with an
\* ErrorResponse and nothing else.
C37_NoBackendCallBeforeReady ==
  /\ calls # << >> =>
       /\ authenticated
       /\ \E n \in DOMAIN log :
            log[n].type = "password" /\ log[n].at = "authentication" /\ log[n].fin
  /\ \A n \in DOMAIN log :
       (/\ log[n].at \in {"startup", "authentication"}
        /\ log[n].type \notin {"startup", "password", "ssl_request"}) =>
         /\ \A i \in DOMAIN calls : calls[i].m # n
         /\ Replies(out, n) \in {<< >>, << << "ErrorResponse", PlainError.code \o " " \o PlainError.severity >> >>}
         /\ (log[n].fin /\ ~destroyed /\ ~writeFailed) => Replies(out, n) # << >>

\* a query sent instead of the password was answered with an ErrorResponse;
\* the backend has not been called and the connection still awaits the password
C37_Witness ==
  \E n \in DOMAIN log :
    /\ log[n].type = "query" /\ log[n].at = "authentication" /\ log[n].fin
    /\ Len(Replies(out, n)) = 1 /\ Replies(out, n)[1][1] = "ErrorResponse"
    /\ calls = << >>
    /\ state = "authentication" /\ ~authenticated

\* C38: every typed message the message builder produces has a length field
\* equal to the number of its bytes minus the type byte.
C38_LengthFieldMatches ==
  \A i \in DOMAIN reply : readInt32BE(reply[i], 1) = Len(reply[i]) - 1

\* C39: the i-th value of every DataRow is the value of the i-th field of
\* the record of the backend response the row is built for.
C39_RowValuesInFieldOrder ==
  (queryResult # << >> /\ reply # << >> /\ response.records # << >>) =>
    \A j \in DOMAIN response.records : reply[1 + j] = DataRow(response.records[j])
====
